---- MODULE Spec2Model ----
(***************************************************************************)
(* Ingestion-to-index pipeline of public_transport_RAG:                    *)
(*   scripts/disturbance_producer.py, scripts/station_producer.py          *)
(*   -> Kafka topics -> scripts/disturbance_sink.py, scripts/stations_sink *)
(*   -> Elasticsearch indices <- tools/tools.py (get_station_id).          *)
(*                                                                         *)
(* One behaviour runs one deployment, fixed in cfg by Init: the pipeline   *)
(* (disruptions or stations), who feeds the sink's topic (the repository's *)
(* producer, or some other publisher of well-formed messages), the number  *)
(* of partitions of the topics, the number of runs of the producer, and    *)
(* which of the two message handlers that                                  *)
(* scripts/stations_sink.py holds is the station sink's loop body (lines   *)
(* 73-102, the bulk handler, or lines 104-131, the direct handler).        *)
(***************************************************************************)
EXTENDS Integers, Sequences, FiniteSets, TLC

VARIABLES
    cfg,        \* the deployment: [sys, feed, variant, nparts, runs]
    log,        \* the broker: topic -> partition -> sequence of messages
    pbuf,       \* the producer's local queue (produce() is asynchronous)
    p_pc,       \* producer position: "idle", "publishing", "done", "aborted"
    p_cycle,    \* number of the producer's current poll cycle (run)
    p_mode,     \* index in the mode list of the group being processed
    p_todo,     \* fetched records of the current group not yet walked
    attempted,  \* indices of the groups whose fetch was attempted in this run
    pos,        \* the sink consumer's stored offset per partition
    committed,  \* the consumer group's committed offset per partition
    index,      \* the index store: index name -> set of documents
    actions,    \* stations sink (bulk handler): pending bulk actions
    embCache,   \* lru_cache of _cached_embedding: text -> "none"|"ok"|"fail"
    sunk,       \* what the sink's last loop iteration did (history)
    failed,     \* <<partition, offset>> of data records whose index write failed
    redelivered,\* the sink was restarted behind its stored offset (history)
    resolved,   \* the last get_station_id call and its result
    call,       \* the last other call of tools.py and its result
    placesCache \* lru_cache of _prim_places_cached: set of [q, prim]

vars == <<cfg, log, pbuf, p_pc, p_cycle, p_mode, p_todo, attempted, pos,
          committed, index, actions, embCache, sunk, failed, redelivered,
          resolved, call, placesCache>>

prodVars == <<pbuf, p_pc, p_cycle, p_mode, p_todo, attempted>>
sinkVars == <<pos, committed, index, actions, embCache, sunk, failed, redelivered>>
toolVars == <<resolved, call, placesCache>>

-----------------------------------------------------------------------------
(* Bounds *)

MaxPartitions == 2      \* partitions per topic
MaxLog == 3             \* messages an outside publisher puts on the sink's topic
MaxFetch == 1           \* records in one upstream response
MaxFetchAny == 2        \* the same, for an upstream that may send anything
MaxCycles == 2          \* producer runs
NumModes == 2           \* groups of the configured mode list that a run walks

None == "None"          \* Python's None / an absent JSON field

Parts == 1..MaxPartitions

-----------------------------------------------------------------------------
(* Names fixed by the source *)

DProducerTopic == "paris-disruptions-metro"
DSinkTopic == "paris-disruptions"
DIndexName == "paris-disruptions"
SProducerTopic == "stations"
SSinkIndexDirect == "stations"
STATIONS_INDEX == "idf-stations"
StationsSinkTopics == {"stations"}

Topics == {DProducerTopic, DSinkTopic, SProducerTopic}
IndexNames == {DIndexName, SSinkIndexDirect, STATIONS_INDEX}

CLEAR == "CLEAR_ALERTS"

\* scripts/disturbance_producer.py Modes, by 'name'
DModes == <<"Bus", "Metro", "RER", "Tramway">>
\* scripts/station_producer.py MODES, by 'name'
SModes == <<"Bus", "Métro", "RER", "Tramway">>

ModeList(sys) == IF sys = "disruptions" THEN DModes ELSE SModes

ProducerTopic(sys) == IF sys = "disruptions" THEN DProducerTopic ELSE SProducerTopic

\* The topics the sink of a deployment subscribes to.
SinkTopics(c) == IF c.sys = "disruptions" THEN {DSinkTopic} ELSE StationsSinkTopics
\* One topic per sink here: the one it polls.
SinkTopic(c) == CHOOSE t \in SinkTopics(c) : TRUE

\* The index the sink of a deployment writes.
SinkIndex(c) ==
    IF c.sys = "disruptions" THEN DIndexName
    ELSE IF c.variant = "bulk" THEN STATIONS_INDEX ELSE SSinkIndexDirect

-----------------------------------------------------------------------------
(* Messages: a JSON object with the fields the handlers read.  cyc is a   *)
(* history field: the producer cycle that published it (0: another        *)
(* publisher).  For a disruption, name holds the title.                   *)

ControlMsg(mode, cyc) ==
    [control |-> CLEAR, mode |-> mode, id |-> None, name |-> None, cyc |-> cyc]
DataMsg(id, mode, name, cyc) ==
    [control |-> None, mode |-> mode, id |-> id, name |-> name, cyc |-> cyc]

IsControl(m) == m.control = CLEAR

\* No message (poll() returned None, or the step polled nothing).
NoMsg == [control |-> None, mode |-> None, id |-> None, name |-> None, cyc |-> 0]

\* What another publisher may put on the sink's topic.
ExtIds(sys) == IF sys = "disruptions" THEN {"d1"} ELSE {"SA:1"}
ExtNames(sys) == IF sys = "disruptions" THEN {"t1", "t2"} ELSE {"Châtelet", "Nation"}
ExtModes(sys) == {ModeList(sys)[i] : i \in 1..NumModes}
ExtMsgs(sys) ==
    {ControlMsg(m, 0) : m \in ExtModes(sys) \cup {None}}
    \cup {DataMsg(i, m, n, 0) : i \in ExtIds(sys), m \in ExtModes(sys), n \in ExtNames(sys)}

-----------------------------------------------------------------------------
(* The channel *)

\* Kafka's partitioner: a keyed message goes to the partition its key hashes
\* to; an unkeyed one to any partition.
KeyHash(key) ==
    CASE key = "d1" -> 0
      [] key = "d2" -> 1
      [] key = "SA:1" -> 0
      [] key = "stop_area:IDFM:2" -> 1
      [] OTHER -> 0

\* key=to_copy['id'] (disturbance_producer.py:130), key=entry["id"]
\* (station_producer.py:136): the key of a data record is its id.
ProducerKey(record) == record.id

PartitionsFor(key, n) ==
    IF key = None THEN 1..n ELSE {(KeyHash(key) % n) + 1}

Append2(lg, topic, p, m) ==
    [lg EXCEPT ![topic][p] = Append(@, m)]

TotalLen(lg, topic) ==
    LET RECURSIVE Sum(_)
        Sum(k) == IF k = 0 THEN 0 ELSE Len(lg[topic][k]) + Sum(k - 1)
    IN Sum(MaxPartitions)

\* Another publisher appends a well-formed message to the sink's topic.
ExternalPublish ==
    /\ cfg.feed = "external"
    /\ TotalLen(log, SinkTopic(cfg)) < MaxLog
    /\ \E m \in ExtMsgs(cfg.sys), p \in 1..cfg.nparts :
          /\ p \in PartitionsFor(IF IsControl(m) THEN None ELSE m.id, cfg.nparts)
          /\ log' = Append2(log, SinkTopic(cfg), p, m)
    /\ UNCHANGED <<cfg, prodVars, sinkVars, toolVars>>

-----------------------------------------------------------------------------
(* The upstream transit API, as the producers see it *)

\* One element of "disruptions" / "stop_areas" of a response.  tagged: the
\* disruption carries the tag 'Actualité' (stop areas have no tags).
UpstreamItems(sys) ==
    IF sys = "disruptions"
    THEN {[id |-> "d1", name |-> "t1", tagged |-> b, coord |-> TRUE] : b \in BOOLEAN}
    ELSE {[id |-> "SA:1", name |-> "Châtelet", tagged |-> TRUE, coord |-> TRUE],
          [id |-> "stop_area:IDFM:2", name |-> "Nation", tagged |-> TRUE, coord |-> TRUE]}

\* Elements an upstream may also send: a stop area without "coord", and one
\* with an empty name.
OddItems(sys) ==
    IF sys = "disruptions" THEN {}
    ELSE {[id |-> "SA:1", name |-> "Châtelet", tagged |-> TRUE, coord |-> FALSE],
          [id |-> "stop_area:IDFM:2", name |-> "", tagged |-> TRUE, coord |-> TRUE]}

RECURSIVE SeqsUpTo(_, _)
SeqsUpTo(S, n) ==
    IF n = 0 THEN {<<>>}
    ELSE LET shorter == SeqsUpTo(S, n - 1)
         IN shorter \cup {Append(q, x) : q \in {r \in shorter : Len(r) = n - 1}, x \in S}

Responses(sys) == SeqsUpTo(UpstreamItems(sys), MaxFetch)

\* The responses a deployment's upstream may give: short lists of distinct
\* well-formed elements, or any list, repeated and odd elements included.
ResponsesOf(c) ==
    IF c.upstream = "any"
    THEN SeqsUpTo(UpstreamItems(c.sys) \cup OddItems(c.sys), MaxFetchAny)
    ELSE Responses(c.sys)

-----------------------------------------------------------------------------
(* confluent_kafka.Producer *)

\* p.produce(topic, key, value): queued locally, the partition is fixed by
\* the partitioner.
Produce(buf, topic, part, m) == Append(buf, [topic |-> topic, part |-> part, msg |-> m])

\* p.flush(): every queued message is delivered, in order.
RECURSIVE FlushAll(_, _)
FlushAll(lg, buf) ==
    IF buf = <<>> THEN lg
    ELSE FlushAll(Append2(lg, Head(buf).topic, Head(buf).part, Head(buf).msg), Tail(buf))

\* The client delivers queued messages in the background, oldest first.
ProducerDeliver ==
    /\ pbuf # <<>>
    /\ log' = Append2(log, Head(pbuf).topic, Head(pbuf).part, Head(pbuf).msg)
    /\ pbuf' = Tail(pbuf)
    /\ UNCHANGED <<cfg, p_pc, p_cycle, p_mode, p_todo, attempted, sinkVars, toolVars>>

\* A run of the producer script starts (time-triggered, or the
\* CONTINUOUS_RUN loop of disturbance_producer.py).
Producer_StartCycle ==
    /\ cfg.feed = "producer"
    /\ p_pc \in {"idle", "done", "aborted"}
    /\ p_cycle < cfg.runs
    /\ p_cycle' = p_cycle + 1
    /\ p_mode' = 1
    /\ p_pc' = "fetch"
    /\ attempted' = {}
    /\ p_todo' = <<>>
    /\ UNCHANGED <<cfg, log, pbuf, sinkVars, toolVars>>

\* The for loop moves to the next group, or the run ends.
NextGroupPc(mode) == IF mode < NumModes THEN "fetch" ELSE "done"
NextGroup(mode) == IF mode < NumModes THEN mode + 1 ELSE mode

\* The wipe command left in the local queue: produce() without flush().
SendWipeNoFlush(lg, buf, topic, part, mode, cyc) ==
    [log |-> lg, pbuf |-> Produce(buf, topic, part, ControlMsg(mode, cyc))]

\* wipe_msg is produced without a key and flushed before any record of the
\* group is produced: [log, pbuf] after `p.produce(TOPIC, value=wipe); p.flush()`.
SendWipe(lg, buf, topic, part, mode, cyc) ==
    [log |-> FlushAll(lg, Produce(buf, topic, part, ControlMsg(mode, cyc))),
     pbuf |-> <<>>]

-----------------------------------------------------------------------------
(* scripts/disturbance_producer.py run_producer *)

\* Lines 67-95: the fetch of one mode; on success the wipe command is sent
\* and flushed; any exception is caught per mode (lines 135-136).
DisturbanceProducer_Fetch ==
    /\ cfg.sys = "disruptions" /\ p_pc = "fetch"
    /\ attempted' = attempted \cup {p_mode}
    /\ \/ \* requests.get / raise_for_status / json raised
          /\ p_pc' = NextGroupPc(p_mode)
          /\ p_mode' = NextGroup(p_mode)
          /\ UNCHANGED <<log, pbuf, p_todo>>
       \/ \E resp \in ResponsesOf(cfg), part \in PartitionsFor(None, cfg.nparts) :
            LET sent == SendWipe(log, pbuf, DProducerTopic, part, DModes[p_mode], p_cycle)
            IN /\ log' = sent.log
               /\ pbuf' = sent.pbuf
               /\ p_todo' = resp
               /\ p_pc' = "publishing"
               /\ p_mode' = p_mode
    /\ UNCHANGED <<cfg, p_cycle, sinkVars, toolVars>>

\* A filter that lets every disruption through.
HasNewsTag_Always(disruption) == TRUE

\* 'Actualité' in disruption.get('tags', []) (line 104)
HasNewsTag(disruption) == disruption.tagged

\* Lines 100-130: one disruption of the response; only those tagged
\* 'Actualité' are produced, keyed by the disruption id.
DisturbanceProducer_Publish ==
    /\ cfg.sys = "disruptions" /\ p_pc = "publishing" /\ p_todo # <<>>
    /\ LET d == Head(p_todo)
           to_copy == DataMsg(d.id, DModes[p_mode], d.name, p_cycle)
       IN /\ pbuf' = IF HasNewsTag(d)
                     THEN Produce(pbuf, DProducerTopic,
                                  CHOOSE q \in PartitionsFor(ProducerKey(d), cfg.nparts) : TRUE,
                                  to_copy)
                     ELSE pbuf
          /\ p_todo' = Tail(p_todo)
    /\ UNCHANGED <<cfg, log, p_pc, p_cycle, p_mode, attempted, sinkVars, toolVars>>

\* Line 132: p.flush() after the loop, then the next mode.
DisturbanceProducer_Flush ==
    /\ cfg.sys = "disruptions" /\ p_pc = "publishing" /\ p_todo = <<>>
    /\ log' = FlushAll(log, pbuf)
    /\ pbuf' = <<>>
    /\ p_pc' = NextGroupPc(p_mode)
    /\ p_mode' = NextGroup(p_mode)
    /\ UNCHANGED <<cfg, p_cycle, p_todo, attempted, sinkVars, toolVars>>

-----------------------------------------------------------------------------
(* scripts/station_producer.py run_producer *)

\* Lines 56-96.  requests.get and raise_for_status stand in the outer try,
\* whose only handler is `except KeyboardInterrupt` (line 152): a failed
\* fetch runs the finally (p.flush()) and leaves run_producer.  A response
\* whose "stop_areas" is null raises ValueError in the inner try, which
\* line 148 catches: that group is skipped.
StationProducer_Fetch ==
    /\ cfg.sys = "stations" /\ p_pc = "fetch"
    /\ attempted' = attempted \cup {p_mode}
    /\ \/ \* the fetch raised
          /\ log' = FlushAll(log, pbuf)
          /\ pbuf' = <<>>
          /\ p_pc' = "aborted"
          /\ UNCHANGED <<p_mode, p_todo>>
       \/ \* "stop_areas": null
          /\ p_pc' = NextGroupPc(p_mode)
          /\ p_mode' = NextGroup(p_mode)
          /\ UNCHANGED <<log, pbuf, p_todo>>
       \/ \E resp \in ResponsesOf(cfg), part \in PartitionsFor(None, cfg.nparts) :
            LET sent == SendWipe(log, pbuf, SProducerTopic, part, SModes[p_mode], p_cycle)
            IN /\ log' = sent.log
               /\ pbuf' = sent.pbuf
               /\ p_todo' = resp
               /\ p_pc' = "publishing"
               /\ p_mode' = p_mode
    /\ UNCHANGED <<cfg, p_cycle, sinkVars, toolVars>>

\* Lines 122-141: one stop area of the response, keyed by its id.  Nothing
\* is tested before the entry is built: station["coord"] on a stop area
\* without coordinates raises KeyError, which the handler of line 148
\* catches outside the loop: the rest of the response is dropped, the flush
\* of line 145 is skipped, and the for loop goes to the next mode.
StationProducer_Publish ==
    /\ cfg.sys = "stations" /\ p_pc = "publishing" /\ p_todo # <<>>
    /\ LET station == Head(p_todo)
           entry == DataMsg(station.id, SModes[p_mode], station.name, p_cycle)
       IN IF station.coord
          THEN /\ pbuf' = Produce(pbuf, SProducerTopic,
                                  CHOOSE q \in PartitionsFor(ProducerKey(station), cfg.nparts) : TRUE,
                                  entry)
               /\ p_todo' = Tail(p_todo)
               /\ UNCHANGED <<p_pc, p_mode>>
          ELSE /\ p_todo' = <<>>
               /\ p_pc' = NextGroupPc(p_mode)
               /\ p_mode' = NextGroup(p_mode)
               /\ UNCHANGED pbuf
    /\ UNCHANGED <<cfg, log, p_cycle, attempted, sinkVars, toolVars>>

\* Lines 143-146 and 154-155: flush the batch, then the next mode.
StationProducer_Flush ==
    /\ cfg.sys = "stations" /\ p_pc = "publishing" /\ p_todo = <<>>
    /\ log' = FlushAll(log, pbuf)
    /\ pbuf' = <<>>
    /\ p_pc' = NextGroupPc(p_mode)
    /\ p_mode' = NextGroup(p_mode)
    /\ UNCHANGED <<cfg, p_cycle, p_todo, attempted, sinkVars, toolVars>>

-----------------------------------------------------------------------------
(* The index store *)

\* es.index(index, document) without id=: the store makes up a new _id.
EsIndexAutoId(docs, id, doc) ==
    docs \cup {[doc EXCEPT !._id = <<"auto", Cardinality(docs)>>]}

\* es.index(index, id, document): replace-if-exists by _id.
EsIndex(docs, id, doc) ==
    {d \in docs : d._id # id} \cup {[doc EXCEPT !._id = id]}

\* es.delete_by_query({"term": {"mode": mode}}) / {"match_all": {}}.
EsDeleteByMode(docs, mode) == {d \in docs : d.mode # mode}
EsDeleteAll(docs) == {}

\* The handlers' reaction to a CLEAR: `if mode:` scopes it, else wipe all.
\* Python's truthiness: None and "" are both "no mode".
ApplyClear(docs, m) ==
    IF m.mode # None /\ m.mode # ""
    THEN EsDeleteByMode(docs, m.mode)
    ELSE EsDeleteAll(docs)

Doc(id, src) ==
    [_id |-> id, id |-> src.id, mode |-> src.mode, name |-> src.name, cyc |-> src.cyc]

-----------------------------------------------------------------------------
(* scripts/disturbance_sink.py *)

\* doc_id = f"{data.get('id')}::{data.get('mode')}"
DisruptionDocId(data) == <<data.id, "::", data.mode>>

\* get_nvidia_embedding through _cached_embedding: the first outcome for a
\* text is the outcome of every later call of the same process.
EmbedOutcome(cache, text, fresh) ==
    IF cache[text] # "none" THEN cache[text] ELSE fresh

Texts == {"t1", "t2", "Châtelet", "Nation", None}
EmptyCache == [t \in Texts |-> "none"]

\* A handler that indexes the record whether or not it got a vector.
DisruptionSinkHandleAnyway(docs, data, vec) ==
    IF IsControl(data) THEN ApplyClear(docs, data)
    ELSE EsIndex(docs, DisruptionDocId(data), Doc(None, data))

\* The effect of one handled message on the documents, given the outcome of
\* the vector computation (lines 82-112), when the index store answers.
DisruptionSinkHandle(docs, data, vec) ==
    IF IsControl(data) THEN ApplyClear(docs, data)
    ELSE IF vec = "ok" THEN EsIndex(docs, DisruptionDocId(data), Doc(None, data))
    ELSE docs

\* A consume loop that ends at the first failed index write.
HasNext_UntilFailure(p) ==
    p <= cfg.nparts /\ pos[p] < Len(log[SinkTopic(cfg)][p]) /\ failed = {}

HasNext(p) == p <= cfg.nparts /\ pos[p] < Len(log[SinkTopic(cfg)][p])
NextMsg(p) == log[SinkTopic(cfg)][p][pos[p] + 1]

\* One iteration of the consume loop that got a message (lines 72-112), with
\* the outer except/finally (lines 114-121) when the index store raises:
\* the consumer is closed, which commits the stored offsets, and a new
\* consumer of the same group resumes from the committed offsets.
DisturbanceSink_Poll ==
    /\ cfg.sys = "disruptions"
    /\ \E p \in Parts, fresh \in {"ok", "fail"}, esOK \in BOOLEAN :
        /\ HasNext(p)
        /\ LET data == NextMsg(p)
               vec  == IF IsControl(data) THEN "none"
                       ELSE EmbedOutcome(embCache, data.name, fresh)
               writes == IsControl(data) \/ vec = "ok"
               off == pos[p] + 1
           IN /\ pos' = [pos EXCEPT ![p] = off]
              /\ embCache' = IF IsControl(data) THEN embCache
                             ELSE [embCache EXCEPT ![data.name] = vec]
              /\ IF writes /\ ~esOK
                 THEN /\ index' = index
                      /\ committed' = pos'
                      /\ sunk' = [msg |-> data, result |-> "failed"]
                      /\ failed' = IF IsControl(data) THEN failed
                                   ELSE failed \cup {<<p, off>>}
                 ELSE /\ index' = [index EXCEPT ![DIndexName] =
                                      DisruptionSinkHandle(@, data, vec)]
                      /\ committed' = committed
                      /\ sunk' = [msg |-> data,
                                  result |-> IF IsControl(data) THEN "cleared"
                                             ELSE IF vec = "ok" THEN "indexed"
                                             ELSE "skipped"]
                      /\ failed' = IF vec = "ok"
                                   THEN {f \in failed :
                                           log[SinkTopic(cfg)][f[1]][f[2]] # data}
                                   ELSE failed
    /\ UNCHANGED <<cfg, log, prodVars, actions, redelivered, toolVars>>

\* msg.error() other than _PARTITION_EOF (lines 76-80): break, close the
\* consumer (commits the stored offsets), subscribe again.
DisturbanceSink_KafkaError ==
    /\ cfg.sys = "disruptions"
    /\ committed' = pos
    /\ sunk' = [msg |-> NoMsg, result |-> "kafka_error"]
    /\ UNCHANGED <<cfg, log, prodVars, pos, index, actions, embCache, failed,
                   redelivered, toolVars>>

-----------------------------------------------------------------------------
(* scripts/stations_sink.py *)

\* (data.get("mode") or "").strip().lower()
Lower(mode) ==
    CASE mode = "Bus" -> "bus"
      [] mode = "Métro" -> "métro"
      [] mode = "Metro" -> "metro"
      [] mode = "RER" -> "rer"
      [] mode = "Tramway" -> "tramway"
      [] mode = None -> ""
      [] OTHER -> mode

\* Bulk handler, line 99: doc_id = f"{mode}:{doc['id']}" with the folded mode.
StationBulkDocId(data) == <<Lower(data.mode), ":", data.id>>

\* Direct handler, line 130: es.index(index=INDEX_NAME, id=data['name'], ...)
StationDirectDocId(data) == <<data.name>>

\* Bulk handler, lines 87-97: the document built from any decoded message.
StationBulkDoc(data) == [Doc(None, data) EXCEPT !.mode = Lower(data.mode)]

\* bulk_index(actions): the index actions applied in order.
RECURSIVE BulkApply(_, _)
BulkApply(docs, acts) ==
    IF acts = <<>> THEN docs
    ELSE BulkApply(EsIndex(docs, Head(acts).id, Head(acts).doc), Tail(acts))

\* Bulk handler, lines 84-102: every decoded message is turned into an index
\* action and buffered; the handler does not look at the control field.
StationsSink_PollBulk ==
    /\ cfg.sys = "stations" /\ cfg.variant = "bulk"
    /\ \E p \in Parts :
        /\ HasNext(p)
        /\ LET data == NextMsg(p)
               off == pos[p] + 1
           IN /\ pos' = [pos EXCEPT ![p] = off]
              /\ actions' = Append(actions, [id |-> StationBulkDocId(data),
                                             doc |-> StationBulkDoc(data),
                                             at |-> <<p, off>>,
                                             msg |-> data])
              /\ sunk' = [msg |-> data, result |-> "buffered"]
    /\ UNCHANGED <<cfg, log, prodVars, committed, index, embCache, failed,
                   redelivered, toolVars>>

\* Bulk handler, lines 75-79: a poll that times out with no message to
\* return flushes the buffer.  bulk_index raises RuntimeError on a status >= 300; nothing in
\* main catches it, so the process ends and its next start resumes from the
\* committed offsets with an empty buffer.
StationsSink_FlushBulk ==
    /\ cfg.sys = "stations" /\ cfg.variant = "bulk"
    /\ \A p \in Parts : ~HasNext(p)
    /\ actions # <<>>
    /\ \E esOK \in BOOLEAN :
        IF esOK
        THEN /\ index' = [index EXCEPT ![STATIONS_INDEX] = BulkApply(@, actions)]
             /\ actions' = <<>>
             /\ sunk' = [msg |-> NoMsg, result |-> "flushed"]
             /\ failed' = {f \in failed :
                             \A i \in 1..Len(actions) :
                                 actions[i].msg # log[SinkTopic(cfg)][f[1]][f[2]]}
             /\ UNCHANGED <<pos, redelivered>>
        ELSE /\ index' = index
             /\ actions' = <<>>
             /\ sunk' = [msg |-> NoMsg, result |-> "failed"]
             /\ failed' = failed \cup {actions[i].at : i \in
                              {j \in 1..Len(actions) : ~IsControl(actions[j].msg)}}
             /\ pos' = committed
             /\ redelivered' = (redelivered \/ pos # committed)
    /\ UNCHANGED <<cfg, log, prodVars, committed, embCache, toolVars>>

\* Direct handler, lines 104-131: a CLEAR deletes by mode, anything else is
\* indexed as it came under the id data['name'].
StationDirectHandle(docs, data) ==
    IF IsControl(data) THEN ApplyClear(docs, data)
    ELSE EsIndex(docs, StationDirectDocId(data), Doc(None, data))

StationsSink_PollDirect ==
    /\ cfg.sys = "stations" /\ cfg.variant = "direct"
    /\ \E p \in Parts, esOK \in BOOLEAN :
        /\ HasNext(p)
        /\ LET data == NextMsg(p)
               off == pos[p] + 1
           IN /\ pos' = [pos EXCEPT ![p] = off]
              /\ IF esOK
                 THEN /\ index' = [index EXCEPT ![SSinkIndexDirect] =
                                      StationDirectHandle(@, data)]
                      /\ sunk' = [msg |-> data,
                                  result |-> IF IsControl(data) THEN "cleared"
                                             ELSE "indexed"]
                      /\ failed' = IF IsControl(data) THEN failed
                                   ELSE {f \in failed :
                                           log[SinkTopic(cfg)][f[1]][f[2]] # data}
                 ELSE /\ index' = index
                      /\ sunk' = [msg |-> data, result |-> "failed"]
                      /\ failed' = IF IsControl(data) THEN failed
                                   ELSE failed \cup {<<p, off>>}
    /\ UNCHANGED <<cfg, log, prodVars, committed, actions, embCache,
                   redelivered, toolVars>>

-----------------------------------------------------------------------------
(* Both sinks: the consumer group's offsets *)

\* enable.auto.commit: True -- the client commits the stored offsets in the
\* background, whatever the handler did with the messages.
AutoCommit ==
    /\ committed # pos
    /\ committed' = pos
    /\ UNCHANGED <<cfg, log, prodVars, pos, index, actions, embCache, sunk,
                   failed, redelivered, toolVars>>

\* The sink process is killed and started again: the new consumer resumes
\* from the committed offsets (at-least-once), with empty process memory.
SinkRestart ==
    /\ pos # committed \/ actions # <<>>
    /\ pos' = committed
    /\ actions' = <<>>
    /\ embCache' = EmptyCache
    /\ sunk' = [msg |-> NoMsg, result |-> "restarted"]
    /\ redelivered' = (redelivered \/ pos # committed)
    /\ UNCHANGED <<cfg, log, prodVars, committed, index, failed, toolVars>>

-----------------------------------------------------------------------------
(* tools/tools.py: station resolution *)

\* Python str values are read character by character where the code looks
\* inside them (`k in t`, replace, strip).  The strings the model uses:
Vocabulary ==
    {"", "Châtelet", "chatelet", "chhtelet", "Nation", "nation", "Rue du Châtelet", "rue du chatelet", "Gare d'Austerlitz", "gare d'austerlitz", "Tramway T3", "tramway t3", "  Nation ", "Metro 14", "metro 14", "Métro", "metro", "métro", "Metro", "Bus", "bus", "RER", "rer", "Tramway", "tramway", "TER", "ter", "RapidTransit", "rapidtransit", "Train Transilien", "train transilien", "Funiculaire", "funiculaire", "RATP", "ratp", "Terres d'Envol", "terres d'envol", "tram", "rapid", "transilien", "billacourt", "billancourt", "walking", "bike"}

\* The characters of a string of the vocabulary.
Chars(t) ==
    CASE t = "" -> <<>>
      [] t = "Châtelet" -> <<"C", "h", "â", "t", "e", "l", "e", "t">>
      [] t = "chatelet" -> <<"c", "h", "a", "t", "e", "l", "e", "t">>
      [] t = "chhtelet" -> <<"c", "h", "h", "t", "e", "l", "e", "t">>
      [] t = "Nation" -> <<"N", "a", "t", "i", "o", "n">>
      [] t = "nation" -> <<"n", "a", "t", "i", "o", "n">>
      [] t = "Rue du Châtelet" -> <<"R", "u", "e", " ", "d", "u", " ", "C", "h", "â", "t", "e", "l", "e", "t">>
      [] t = "rue du chatelet" -> <<"r", "u", "e", " ", "d", "u", " ", "c", "h", "a", "t", "e", "l", "e", "t">>
      [] t = "Gare d'Austerlitz" -> <<"G", "a", "r", "e", " ", "d", "'", "A", "u", "s", "t", "e", "r", "l", "i", "t", "z">>
      [] t = "gare d'austerlitz" -> <<"g", "a", "r", "e", " ", "d", "'", "a", "u", "s", "t", "e", "r", "l", "i", "t", "z">>
      [] t = "Tramway T3" -> <<"T", "r", "a", "m", "w", "a", "y", " ", "T", "3">>
      [] t = "tramway t3" -> <<"t", "r", "a", "m", "w", "a", "y", " ", "t", "3">>
      [] t = "  Nation " -> <<" ", " ", "N", "a", "t", "i", "o", "n", " ">>
      [] t = "Metro 14" -> <<"M", "e", "t", "r", "o", " ", "1", "4">>
      [] t = "metro 14" -> <<"m", "e", "t", "r", "o", " ", "1", "4">>
      [] t = "Métro" -> <<"M", "é", "t", "r", "o">>
      [] t = "metro" -> <<"m", "e", "t", "r", "o">>
      [] t = "métro" -> <<"m", "é", "t", "r", "o">>
      [] t = "Metro" -> <<"M", "e", "t", "r", "o">>
      [] t = "Bus" -> <<"B", "u", "s">>
      [] t = "bus" -> <<"b", "u", "s">>
      [] t = "RER" -> <<"R", "E", "R">>
      [] t = "rer" -> <<"r", "e", "r">>
      [] t = "Tramway" -> <<"T", "r", "a", "m", "w", "a", "y">>
      [] t = "tramway" -> <<"t", "r", "a", "m", "w", "a", "y">>
      [] t = "TER" -> <<"T", "E", "R">>
      [] t = "ter" -> <<"t", "e", "r">>
      [] t = "RapidTransit" -> <<"R", "a", "p", "i", "d", "T", "r", "a", "n", "s", "i", "t">>
      [] t = "rapidtransit" -> <<"r", "a", "p", "i", "d", "t", "r", "a", "n", "s", "i", "t">>
      [] t = "Train Transilien" -> <<"T", "r", "a", "i", "n", " ", "T", "r", "a", "n", "s", "i", "l", "i", "e", "n">>
      [] t = "train transilien" -> <<"t", "r", "a", "i", "n", " ", "t", "r", "a", "n", "s", "i", "l", "i", "e", "n">>
      [] t = "Funiculaire" -> <<"F", "u", "n", "i", "c", "u", "l", "a", "i", "r", "e">>
      [] t = "funiculaire" -> <<"f", "u", "n", "i", "c", "u", "l", "a", "i", "r", "e">>
      [] t = "RATP" -> <<"R", "A", "T", "P">>
      [] t = "ratp" -> <<"r", "a", "t", "p">>
      [] t = "Terres d'Envol" -> <<"T", "e", "r", "r", "e", "s", " ", "d", "'", "E", "n", "v", "o", "l">>
      [] t = "terres d'envol" -> <<"t", "e", "r", "r", "e", "s", " ", "d", "'", "e", "n", "v", "o", "l">>
      [] t = "tram" -> <<"t", "r", "a", "m">>
      [] t = "rapid" -> <<"r", "a", "p", "i", "d">>
      [] t = "transilien" -> <<"t", "r", "a", "n", "s", "i", "l", "i", "e", "n">>
      [] t = "billacourt" -> <<"b", "i", "l", "l", "a", "c", "o", "u", "r", "t">>
      [] t = "billancourt" -> <<"b", "i", "l", "l", "a", "n", "c", "o", "u", "r", "t">>
      [] t = "walking" -> <<"w", "a", "l", "k", "i", "n", "g">>
      [] t = "bike" -> <<"b", "i", "k", "e">>

\* The string of the vocabulary with the given characters.
Str(s) == CHOOSE a \in Vocabulary : Chars(a) = s

\* `k in s` on character sequences.
Contains(s, k) ==
    \E i \in 0..(Len(s) - Len(k)) : SubSeq(s, i + 1, i + Len(k)) = k

\* str.replace(old, new): every occurrence, left to right.
RECURSIVE Replace(_, _, _)
Replace(s, old, new) ==
    IF Len(s) < Len(old) THEN s
    ELSE IF SubSeq(s, 1, Len(old)) = old
         THEN new \o Replace(SubSeq(s, Len(old) + 1, Len(s)), old, new)
         ELSE <<Head(s)>> \o Replace(Tail(s), old, new)

\* str.strip()
RECURSIVE LStrip(_)
LStrip(s) == IF s # <<>> /\ Head(s) = " " THEN LStrip(Tail(s)) ELSE s
RECURSIVE RStrip(_)
RStrip(s) ==
    IF s # <<>> /\ s[Len(s)] = " " THEN RStrip(SubSeq(s, 1, Len(s) - 1)) ELSE s
Strip(s) == RStrip(LStrip(s))

\* NFKD without combining marks, then lower(): one character at a time.
FoldChar(c) ==
    CASE c = "A" -> "a"
      [] c = "B" -> "b"
      [] c = "C" -> "c"
      [] c = "E" -> "e"
      [] c = "F" -> "f"
      [] c = "G" -> "g"
      [] c = "M" -> "m"
      [] c = "N" -> "n"
      [] c = "P" -> "p"
      [] c = "R" -> "r"
      [] c = "T" -> "t"
      [] c = "â" -> "a"
      [] c = "é" -> "e"
      [] OTHER -> c

\* re.sub(r"\s+", " ", s)
RECURSIVE CollapseSpaces(_)
CollapseSpaces(s) ==
    IF Len(s) < 2 THEN s
    ELSE IF s[1] = " " /\ s[2] = " " THEN CollapseSpaces(Tail(s))
    ELSE <<s[1]>> \o CollapseSpaces(Tail(s))

\* normalize_text on characters: strip, fold, lower, collapse, strip.
NormalizeChars(s) ==
    LET t == Strip(s)
        folded == [i \in 1..Len(t) |-> FoldChar(t[i])]
    IN Strip(CollapseSpaces(folded))

\* normalize_text on every string of the vocabulary, computed once.
NormalizedOf == [t \in Vocabulary |-> Str(NormalizeChars(Chars(t)))]

\* normalize_text(s): `(s or "")` first, so None gives "".
normalize_text(t) ==
    IF t = None THEN "" ELSE NormalizedOf[t]

\* `k in t` for two strings of the vocabulary, computed once.
InText == [t \in Vocabulary |-> {k \in Vocabulary : Contains(Chars(t), Chars(k))}]
Has(t, k) == k \in InText[t]

\* common_typos_fix: normalize_text, then the two fixed substitutions.
TyposFixedOf ==
    [t \in Vocabulary |->
        Str(Replace(Replace(Chars(NormalizedOf[t]),
                            Chars("billacourt"), Chars("billancourt")),
                    Chars("chhtelet"), Chars("chatelet")))]
common_typos_fix(q) == IF q = None THEN "" ELSE TyposFixedOf[q]

BLOCKED_KEYWORDS == {"tram", "ter"}

\* _contains_blocked that finds no keyword.
contains_blocked_Nothing(t) == FALSE

\* _contains_blocked: any(k in normalize_text(text) for k in BLOCKED_KEYWORDS)
contains_blocked(t) ==
    \E k \in BLOCKED_KEYWORDS : Has(normalize_text(t), k)

\* _extract_line_hint(qn)[0]: the mode the text names, metro before rer
\* before bus.
extract_mode_hint(qn) ==
    IF Has(qn, "metro") THEN "metro"
    ELSE IF Has(qn, "rer") THEN "rer"
    ELSE IF Has(qn, "bus") THEN "bus"
    ELSE None

\* v.startswith(("stop_area:", "stop_point:", "poi:", "address:"))
HasPlacePrefix(v) == v \in {"stop_area:IDFM:2", "address:1"}
\* es_id.startswith(("stop_area:", "stop_point:")): no _id a sink makes
\* ("mode:id", a station name) starts so in the model.
HasStopPrefix(es_id) == FALSE

\* _pick_id(src, es_id): the id field when it looks like a Navitia place id,
\* else the ES _id when it does; the model's documents carry no idfm field.
pick_id(src, es_id) ==
    IF src.id # None /\ HasPlacePrefix(src.id) THEN src.id
    ELSE IF HasStopPrefix(es_id) THEN es_id
    ELSE None

\* _pick_name / _pick_mode
pick_name(src) == IF src.name = None THEN "" ELSE src.name
pick_mode(src) == normalize_text(src.mode)

\* The hits of _es_search_stations: the documents of STATIONS_INDEX whose
\* name matches the query once both are folded (what the fuzzy multi_match
\* of lines 167-195 gives on the names of the model); [] when ES raises.
es_search_stations(query) ==
    LET q == common_typos_fix(query)
        mode_hint == extract_mode_hint(normalize_text(query))
    IN {d \in index[STATIONS_INDEX] :
          /\ d.name # None /\ normalize_text(d.name) = q
          /\ mode_hint # None => d.mode = mode_hint}

\* The orders in which the store may rank a set of documents.
RECURSIVE Rankings(_)
Rankings(S) ==
    IF S = {} THEN {<<>>}
    ELSE UNION {{<<x>> \o r : r \in Rankings(S \ {x})} : x \in S}

\* "size": size of the search body; get_station_id asks with size=5.
SearchSize == 5

\* The hits lists the store may answer _es_search_stations(query) with: the
\* first SearchSize matching documents of a ranking.
Hits(query) ==
    {SubSeq(r, 1, IF Len(r) < SearchSize THEN Len(r) ELSE SearchSize) :
        r \in Rankings(es_search_stations(query))}

\* The places the upstream knows for a query (GET places?q=).
UpstreamPlaces(q) ==
    IF q = "chatelet"
    THEN {[id |-> "SA:1", name |-> "Châtelet"], [id |-> "address:1", name |-> "Rue du Châtelet"]}
    ELSE {[id |-> "stop_area:IDFM:2", name |-> "Nation"]}

Queries == {"chatelet", "Nation", "Gare d'Austerlitz", "Tramway T3", ""}

\* No call of _allowed_section, get_itinerary or get_disruption_context yet.
NoToolCall == [fn |-> None]

NoPlace == [id |-> None, name |-> None]

\* What a call returns: text is the fixed part of the returned string
\* ("json": the JSON object of a resolved station), detail the str(e) put
\* after it, calls the services asked, in order.  A call that raises has no
\* return value: text is RAISED and detail the exception.
RAISED == "<raised>"

\* For a resolved station: keys, the keys of the JSON object, and
\* candidates, its "candidates" list.
NoOut == [ok |-> FALSE, text |-> None, detail |-> None, name |-> None, id |-> None,
          mode |-> None, candidates |-> <<>>, keys |-> {}, calls |-> <<>>]

\* The service was asked during the call.
Asked(out, service) == \E i \in 1..Len(out.calls) : out.calls[i] = service

NoPrim == [kind |-> None, cause |-> None, place |-> NoPlace]

NoCall == [q |-> None, scenario |-> FALSE, es |-> None, hits |-> <<>>, prim |-> NoPrim,
           out |-> NoOut]

Failure(text, detail, calls) ==
    [NoOut EXCEPT !.text = text, !.detail = detail, !.calls = calls]
Raised(exc, calls) == Failure(RAISED, exc, calls)
Success(name, id, mode, candidates, calls) ==
    [ok |-> TRUE, text |-> "json", detail |-> None, name |-> name, id |-> id,
     mode |-> mode, candidates |-> candidates,
     keys |-> {"name", "id", "mode", "candidates"}, calls |-> calls]

\* `md or "unknown"`
ModeOrUnknown(md) == IF md = "" THEN "unknown" ELSE md

\* [{"name": c["name"], "mode": c["mode"]} for c in candidates[:5]]
PayloadCandidates(cands) ==
    [i \in 1..(IF Len(cands) < 5 THEN Len(cands) ELSE 5) |->
        [name |-> cands[i].name, mode |-> ModeOrUnknown(cands[i].mode)]]

\* The fixed parts of the strings get_station_id returns.
ErrEmptyName == "Error: empty station name."
NotSupported == "Not supported: Tram / TER. Supported: Metro + Bus + RER."
StationNotFound == "Station not found"
PrimErrorHttp == "PRIM error while resolving station (HTTP). Check PRIM_TOKEN / header 'apikey'. Details: "
ErrResolving == "Error while resolving station: "

\* What makes a request to the Transit API fail.  prim_get (lines 51-55):
\* raise_for_status raises requests.HTTPError on a 4xx/5xx status; a missing
\* PRIM_TOKEN raises RuntimeError in _prim_headers; a network error or a
\* timeout raises another requests exception; a body that is not JSON raises
\* in r.json(); a JSON body that is not an object raises where the caller
\* calls .get on it.
HttpStatuses == {"401", "403", "500"}
OtherCauses == {"token_missing", "timeout", "connection", "not_json"}

\* The outcomes of the places fallback (lines 259-277): requests.HTTPError,
\* another exception, no usable place, or the best place.
PrimOutcomes(q) ==
    {[kind |-> "http_error", cause |-> c, place |-> NoPlace] : c \in HttpStatuses}
    \cup {[kind |-> "error", cause |-> c, place |-> NoPlace] :
             c \in OtherCauses \cup {"not_object"}}
    \cup {[kind |-> "empty", cause |-> None, place |-> NoPlace]}
    \cup {[kind |-> "place", cause |-> None, place |-> pl] : pl \in UpstreamPlaces(q)}

\* The outcomes of the index search: hits, an error (caught in
\* _es_search_stations, lines 197-202: no hit), or a hits list with an
\* element that is not an object.
EsOutcomes == {"hits", "error", "bad_hit"}

\* `not station_name or not station_name.strip()`
IsBlank(t) == t = None \/ normalize_text(t) = ""

\* get_station_id without the places fallback: not found as soon as the
\* index gives no candidate.
get_station_id_IndexOnly(station_name, es, cands, best, prim) ==
    IF IsBlank(station_name) THEN Failure(ErrEmptyName, None, <<>>)
    ELSE IF contains_blocked(station_name) THEN Failure(NotSupported, None, <<>>)
    ELSE IF es = "bad_hit" THEN Raised("AttributeError", <<"es">>)
    ELSE IF cands # <<>>
         THEN Success(best.name, best.id, ModeOrUnknown(best.mode),
                      PayloadCandidates(cands), <<"es">>)
    ELSE Failure(StationNotFound, station_name, <<"es">>)

\* get_station_id (lines 226-277).  es: the outcome of the index search;
\* cands: the candidates built from its hits; best: candidates[0]; prim: the
\* outcome of the places fallback, consulted only without candidates.  The
\* loop over the hits (lines 239-246) stands outside any try: h.get on a
\* hit that is not an object raises AttributeError out of the function.
get_station_id(station_name, es, cands, best, prim) ==
    IF IsBlank(station_name) THEN Failure(ErrEmptyName, None, <<>>)
    ELSE IF contains_blocked(station_name) THEN Failure(NotSupported, None, <<>>)
    ELSE IF es = "bad_hit" THEN Raised("AttributeError", <<"es">>)
    ELSE IF cands # <<>>
         THEN Success(best.name, best.id, ModeOrUnknown(best.mode),
                      PayloadCandidates(cands), <<"es">>)
    ELSE IF prim.kind = "http_error"
         THEN Failure(PrimErrorHttp, prim.cause, <<"es", "prim">>)
    ELSE IF prim.kind = "error"
         THEN Failure(ErrResolving, prim.cause, <<"es", "prim">>)
    ELSE IF prim.kind = "empty"
         THEN Failure(StationNotFound, station_name, <<"es", "prim">>)
    ELSE Success(prim.place.name, prim.place.id, "unknown", <<>>, <<"es", "prim">>)

\* `if sid and nm` (line 245)
Usable(h) == pick_id(h, h._id) # None /\ pick_name(h) # ""

\* The candidates built from the hits, in their order (lines 239-246): a
\* hit without a usable id or name is dropped.
Candidates(hits) ==
    LET usable == SelectSeq(hits, Usable)
    IN [i \in 1..Len(usable) |->
           [name |-> pick_name(usable[i]), id |-> pick_id(usable[i], usable[i]._id),
            mode |-> pick_mode(usable[i])]]

\* True when the station producer's last two messages are the CLEAR of the
\* metro group and the station SA:1 "Châtelet" of that group, on a
\* one-partition topic, and the sink has consumed and indexed all it polled.
StationScenarioConsumed ==
    LET lg == log[SProducerTopic][1]
        n == Len(lg)
    IN /\ cfg.sys = "stations" /\ cfg.feed = "producer" /\ cfg.nparts = 1
       /\ n >= 2
       /\ IsControl(lg[n - 1]) /\ lg[n - 1].mode = SModes[2]
       /\ lg[n] = DataMsg("SA:1", SModes[2], "Châtelet", lg[n - 1].cyc)
       /\ pbuf = <<>>
       /\ pos[1] = n
       /\ actions = <<>>
       /\ failed = {}

NoCandidate == [name |-> None, id |-> None, mode |-> None]

\* No function of tools.py was called yet.  A call changes nothing of the
\* pipeline's state, so one call per behaviour reaches every state that a
\* sequence of calls would reach.
NoCallYet == resolved = NoCall /\ call = NoToolCall

\* prim_get returned to _prim_places_cached: lru_cache keeps the value.  An
\* exception of prim_get is not kept; a JSON body that is not an object is
\* (the exception comes later, in _best_place_from_prim).
Kept(prim) ==
    prim.kind \in {"place", "empty"} \/ (prim.kind = "error" /\ prim.cause = "not_object")

\* _prim_places_cached(q) (lines 205-208): the value kept for q when there is
\* one, else what the upstream answers now.
prim_places_cached(cache, q, upstream) ==
    IF \E e \in cache : e.q = q
    THEN (CHOOSE e \in cache : e.q = q).prim
    ELSE upstream

\* The cache after the call, when the call asked for the places of q.
CacheAfter(cache, q, upstream) ==
    IF (\E e \in cache : e.q = q) \/ ~Kept(upstream) THEN cache
    ELSE cache \cup {[q |-> q, prim |-> upstream]}

\* candidates[0]
Best(cands) == IF cands = <<>> THEN NoCandidate ELSE cands[1]

\* A caller resolves a station name.  The index search may raise (then
\* _es_search_stations returns []); the ranking of the hits is the store's.
\* The outcome of a service is drawn only when the call asks the service.
Resolve ==
    /\ cfg.sys = "stations"
    /\ NoCallYet
    /\ \E q \in Queries :
        \E es \in (IF Asked(get_station_id(q, "error", <<>>, NoCandidate, NoPrim), "es")
                   THEN EsOutcomes ELSE {None}) :
        \E hits \in (IF es = "hits" THEN Hits(q) ELSE {<<>>}) :
        LET cands == Candidates(hits)
            best == Best(cands)
        IN \E prim \in (IF Asked(get_station_id(q, es, cands, best, NoPrim), "prim")
                        THEN PrimOutcomes(common_typos_fix(q)) ELSE {NoPrim}) :
                /\ resolved' = [q |-> q, scenario |-> StationScenarioConsumed,
                                es |-> es, hits |-> hits, prim |-> prim,
                                out |-> get_station_id(q, es, cands, best, prim)]
                /\ placesCache' =
                      IF prim = NoPrim THEN placesCache
                      ELSE CacheAfter(placesCache, common_typos_fix(q), prim)
    /\ UNCHANGED <<cfg, log, prodVars, sinkVars, call>>

\* A caller resolves a station name after an earlier call.  upstream: what
\* the Transit API answers to GET places at the time of this call.
ResolveAgain ==
    /\ cfg.sys = "stations"
    /\ resolved # NoCall /\ call = NoToolCall
    /\ \E q \in Queries :
        \E es \in (IF Asked(get_station_id(q, "error", <<>>, NoCandidate, NoPrim), "es")
                   THEN EsOutcomes ELSE {None}) :
        \E hits \in (IF es = "hits" THEN Hits(q) ELSE {<<>>}) :
        LET cands == Candidates(hits)
            best == Best(cands)
        IN \E upstream \in (IF Asked(get_station_id(q, es, cands, best, NoPrim), "prim")
                            THEN PrimOutcomes(common_typos_fix(q)) ELSE {NoPrim}) :
           LET prim == IF upstream = NoPrim THEN NoPrim
                       ELSE prim_places_cached(placesCache, common_typos_fix(q), upstream)
           IN /\ call' = [fn |-> "get_station_id", q |-> q, es |-> es, hits |-> hits,
                          upstream |-> upstream,
                          out |-> get_station_id(q, es, cands, best, prim)]
              /\ placesCache' =
                    IF upstream = NoPrim THEN placesCache
                    ELSE CacheAfter(placesCache, common_typos_fix(q), upstream)
    /\ UNCHANGED <<cfg, log, prodVars, sinkVars, resolved>>

-----------------------------------------------------------------------------
(* tools/tools.py: itinerary sections *)

PT == "public_transport"

\* display_informations.network as the upstream sends it: a string, an
\* object with a name, or nothing.
Networks ==
    {[shape |-> "str", name |-> n] : n \in {"RATP", "Terres d'Envol"}}
    \cup {[shape |-> "dict", name |-> n] : n \in {"RATP", None}}
    \cup {[shape |-> "none", name |-> None]}

CommercialModes ==
    {"Metro", "Métro", "Bus", "RER", "RapidTransit", "Train Transilien",
     "Tramway", "TER", "Funiculaire", None}

\* A section of a journey, with the fields of display_informations that the
\* code reads beside it.
Sections ==
    [type : {PT, "street_network", "waiting", None},
     commercial_mode : CommercialModes,
     network : Networks,
     code : {"A", "14", None}]

\* _safe_network_name(di)
safe_network_name(section) ==
    IF section.network.shape \in {"dict", "str"} /\ section.network.name # None
    THEN section.network.name
    ELSE ""

\* _allowed_section(section): lines 312-347.
allowed_section(section) ==
    IF section.type # PT THEN TRUE
    ELSE LET cm == normalize_text(section.commercial_mode)
             nm == normalize_text(safe_network_name(section))
         IN IF Has(cm, "tram") \/ Has(nm, "tram") THEN FALSE
            ELSE IF Has(cm, "ter") \/ Has(nm, "ter") THEN FALSE
            ELSE IF Has(cm, "metro") THEN TRUE
            ELSE IF Has(cm, "bus") THEN TRUE
            ELSE IF Has(cm, "rer") \/ Has(cm, "rapid") \/ Has(cm, "transilien")
                 THEN TRUE
            ELSE FALSE

\* _allowed_section is applied to a section.
AllowedSection ==
    /\ NoCallYet
    /\ \E section \in Sections :
          call' = [fn |-> "_allowed_section", section |-> section,
                   out |-> allowed_section(section)]
    /\ UNCHANGED <<cfg, log, prodVars, sinkVars, resolved, placesCache>>

-----------------------------------------------------------------------------
(* tools/tools.py: get_itinerary *)

MaxJourneys == 4        \* journeys in one upstream response

\* Every result get_station_id(q) can give over the index as it is, whatever
\* the index store and the Transit API answer.
StationResults(q) ==
    UNION { {get_station_id(q, es, Candidates(hits), Best(Candidates(hits)), prim) :
                   hits \in (IF es = "hits" THEN Hits(q) ELSE {<<>>}),
                   prim \in PrimOutcomes(common_typos_fix(q))}
          : es \in (IF IsBlank(q) THEN {"error"} ELSE EsOutcomes) }

\* How the string get_station_id returned begins (the text after it is the
\* detail, or the rest of the JSON object).
OutChars(text) ==
    CASE text = ErrEmptyName -> <<"E", "r", "r", "o", "r", ":", " ", "e", "m", "p", "t", "y">>
      [] text = NotSupported -> <<"N", "o", "t", " ", "s", "u", "p", "p", "o", "r", "t", "e", "d", ":", " ", "T", "r", "a", "m">>
      [] text = StationNotFound -> <<"S", "t", "a", "t", "i", "o", "n", " ", "n", "o", "t", " ", "f", "o", "u", "n", "d">>
      [] text = PrimErrorHttp -> <<"P", "R", "I", "M", " ", "e", "r", "r", "o", "r", " ", "w", "h", "i", "l", "e">>
      [] text = ErrResolving -> <<"E", "r", "r", "o", "r", " ", "w", "h", "i", "l", "e", " ", "r", "e", "s", "o", "l", "v", "i", "n", "g">>
      [] text = "json" -> <<"{", "\"", "n", "a", "m", "e", "\"", ":", " ">>
      [] OTHER -> <<>>

\* str.startswith
StartsWith(s, prefix) ==
    Len(prefix) <= Len(s) /\ SubSeq(s, 1, Len(prefix)) = prefix

\* The four prefixes tested on line 282.
FailurePrefixes ==
    {<<"E", "r", "r", "o", "r">>,
     <<"N", "o", "t", " ", "s", "u", "p", "p", "o", "r", "t", "e", "d">>,
     <<"S", "t", "a", "t", "i", "o", "n", " ", "n", "o", "t", " ", "f", "o", "u", "n", "d">>,
     <<"P", "R", "I", "M", " ", "e", "r", "r", "o", "r">>}

\* Lines 280-285 with a given set of prefixes: ValueError(out) when out
\* starts with one of them, else json.loads(out)["id"]; json.loads raises
\* JSONDecodeError on a string that is not JSON.  arg is the argument of
\* the ValueError.
ResolveWith(prefixes, r) ==
    IF r.text = RAISED THEN [kind |-> "raise", id |-> None, arg |-> None]
    ELSE IF \E prefix \in prefixes : StartsWith(OutChars(r.text), prefix)
    THEN [kind |-> "ValueError", id |-> None, arg |-> r.text]
    ELSE IF StartsWith(OutChars(r.text), <<"{">>)
    THEN [kind |-> "id", id |-> r.id, arg |-> None]
    ELSE [kind |-> "JSONDecodeError", id |-> None, arg |-> None]

\* A test that does not know the "PRIM error" prefix.
resolve_place_id_ThreePrefixes(r) ==
    ResolveWith(FailurePrefixes \ {<<"P", "R", "I", "M", " ", "e", "r", "r", "o", "r">>}, r)

\* _resolve_place_id(name), given what get_station_id(name) did: the id, the
\* ValueError carrying the failure text, or the exception passed on.
resolve_place_id(r) == ResolveWith(FailurePrefixes, r)

\* A duration field: a number of seconds, absent, or something else.
Seconds(n) == [kind |-> "int", value |-> n]
NoDuration == [kind |-> "none", value |-> 0]
BadDuration == [kind |-> "str", value |-> 0]

\* A formatting that rounds the minutes to the nearest.
format_duration_Rounded(d) ==
    IF d.kind = "none" THEN <<"?">>
    ELSE IF d.kind # "int" THEN <<RAISED>>
    ELSE LET m == (d.value + 30) \div 60
         IN IF m < 60 THEN <<m, "min">>
            ELSE <<m \div 60, "h", m % 60, "min">>

\* _format_duration(seconds); seconds // 60 raises TypeError on a value that
\* is not a number.
format_duration(d) ==
    IF d.kind = "none" THEN <<"?">>
    ELSE IF d.kind # "int" THEN <<RAISED>>
    ELSE LET m == d.value \div 60
         IN IF m < 60 THEN <<m, "min">>
            ELSE <<m \div 60, "h", m % 60, "min">>

MaxSeconds == 7325      \* the longest duration formatted alone

\* _format_duration is applied to a duration.
FormatDuration ==
    /\ NoCallYet
    /\ \E d \in {Seconds(n) : n \in 0..MaxSeconds} \cup {NoDuration, BadDuration} :
          call' = [fn |-> "_format_duration", seconds |-> d, out |-> format_duration(d)]
    /\ UNCHANGED <<cfg, log, prodVars, sinkVars, resolved, placesCache>>

\* The label _format_section gives a section (lines 350-395).
SectionLabel(section) ==
    IF section.type = "street_network" THEN "Walk"
    ELSE IF section.type = PT
         THEN LET cmn == normalize_text(section.commercial_mode)
              IN IF Has(cmn, "metro") THEN "Metro"
                 ELSE IF Has(cmn, "bus") THEN "Bus"
                 ELSE IF section.commercial_mode = None THEN ""
                 ELSE section.commercial_mode
    ELSE IF section.type = None THEN "" ELSE section.type

\* The sections _format_journey prints, in order: waiting and transfer
\* sections and the sections _allowed_section refuses are left out.
RECURSIVE PrintedSections(_)
PrintedSections(sections) ==
    IF sections = <<>> THEN <<>>
    ELSE LET sec == Head(sections)
         IN IF sec.type \in {"waiting", "transfer"} \/ ~allowed_section(sec)
            THEN PrintedSections(Tail(sections))
            ELSE <<sec>> \o PrintedSections(Tail(sections))

\* _format_journey(journey): the total, the numbered legs, and the note
\* "No allowed PT section found (Metro/Bus/RER)." when nothing was printed.
format_journey(journey) ==
    LET printed == PrintedSections(journey.sections)
    IN [total |-> format_duration(journey.duration),
        transfers |-> IF journey.nb_transfers.kind = "none" THEN 0
                      ELSE journey.nb_transfers.value,
        legs |-> [i \in 1..Len(printed) |->
                     [idx |-> i, type |-> printed[i].type,
                      label |-> SectionLabel(printed[i]),
                      code |-> printed[i].code,
                      texts |-> {SectionLabel(printed[i]), printed[i].code}]],
        none |-> (printed = <<>>),
        source |-> journey]

\* "### Option i" followed by the printed journey (lines 458-460).
Option(i, printed) ==
    [option |-> i, total |-> printed.total, transfers |-> printed.transfers,
     legs |-> printed.legs, none |-> printed.none, source |-> printed.source]

\* Sections and journeys of the upstream responses of the model.
\* link: the id of the disruption that the section's links name, if any.
SecWalk == [type |-> "street_network", commercial_mode |-> None,
            network |-> [shape |-> "none", name |-> None], code |-> None,
            link |-> None]
SecMetro == [type |-> PT, commercial_mode |-> "Metro",
             network |-> [shape |-> "str", name |-> "RATP"], code |-> "14",
             link |-> "disr1"]
SecTram == [type |-> PT, commercial_mode |-> "Tramway",
            network |-> [shape |-> "str", name |-> "RATP"], code |-> None,
            link |-> None]
SecBus == [type |-> PT, commercial_mode |-> "Bus",
           network |-> [shape |-> "str", name |-> "Terres d'Envol"], code |-> None,
           link |-> None]
SecMetroOfNetwork == [type |-> PT, commercial_mode |-> "Metro",
                      network |-> [shape |-> "dict", name |-> "Terres d'Envol"],
                      code |-> "1", link |-> None]

\* nb_transfers is a number or absent, like a duration.
Journey(sections, duration, nb_transfers) ==
    [shape |-> "object", sections |-> sections, duration |-> duration,
     nb_transfers |-> nb_transfers]
\* An element of "journeys" that is not a JSON object.
NotAJourney == [shape |-> "other", sections |-> <<>>, duration |-> NoDuration,
                nb_transfers |-> NoDuration]

JourneyChoices ==
    {Journey(<<SecWalk, SecMetro>>, Seconds(125), Seconds(1)),
     Journey(<<SecTram>>, Seconds(3725), NoDuration),
     Journey(<<SecWalk, SecTram>>, NoDuration, Seconds(0)),
     Journey(<<SecBus>>, Seconds(600), Seconds(0)),
     Journey(<<SecMetro>>, BadDuration, Seconds(0)),
     Journey(<<SecWalk, SecMetroOfNetwork>>, Seconds(600), NoDuration),
     NotAJourney}

\* The "disruptions" list of a journeys response.
DisruptionLists == {<<>>, <<[id |-> "disr1", text |-> "t1"]>>}

\* The outcomes of GET journeys: an exception of prim_get, a JSON body that
\* is not an object, or an object with its "journeys".
NoRequest == [kind |-> None, cause |-> None, journeys |-> <<>>, disruptions |-> <<>>]
JourneysOutcomes ==
    {[NoRequest EXCEPT !.kind = "http_error", !.cause = c] : c \in HttpStatuses}
    \cup {[NoRequest EXCEPT !.kind = "error", !.cause = c] : c \in OtherCauses}
    \cup {[NoRequest EXCEPT !.kind = "not_object"]}
    \cup {[kind |-> "response", cause |-> None, journeys |-> js, disruptions |-> ds] :
             js \in SeqsUpTo(JourneyChoices, MaxJourneys), ds \in DisruptionLists}

\* The fixed parts of the strings get_itinerary returns.
ErrRequired == "Error: start_station and end_station are required."
PrimRequestFailed == "PRIM request failed (HTTP). If you see 401: ... Details: "
ErrJourneys == "Error calling PRIM journeys: "
NoJourneyFound == "No journey found. Try more precise stop names."
BestOptions == "## Best options (Metro + Bus + RER)"

\* What get_itinerary returns: text and detail as for get_station_id; calls:
\* the steps taken; filtered: the journeys kept by the filter of lines
\* 449-453; options: the journeys printed, in order.  A call that raises
\* has text RAISED.
ItinOut(text, detail, calls) ==
    [text |-> text, detail |-> detail, calls |-> calls, filtered |-> <<>>, options |-> <<>>]

\* `not start_station`
NotGiven(t) == t = None \/ t = ""

\* any(s.get("type") == "public_transport" and _allowed_section(s) for s in secs)
HasAllowedPT(journey) ==
    \E i \in 1..Len(journey.sections) :
        journey.sections[i].type = PT /\ allowed_section(journey.sections[i])

\* A rendering of every journey in use.
Shown_All(use) == use

\* use[:3] (line 458).
Shown(use) == SubSeq(use, 1, IF Len(use) < 3 THEN Len(use) ELSE 3)

\* get_itinerary that resolves both endpoints before it looks at either
\* result.
get_itinerary_ResolveBoth(start_station, end_station, r1, r2, jr) ==
    IF NotGiven(start_station) \/ NotGiven(end_station)
    THEN ItinOut(ErrRequired, None, <<>>)
    ELSE IF contains_blocked(start_station) \/ contains_blocked(end_station)
    THEN ItinOut(NotSupported, None, <<>>)
    ELSE IF ~r1.ok
    THEN ItinOut(r1.text, r1.detail, <<"resolve_start", "resolve_end">>)
    ELSE IF ~r2.ok
    THEN ItinOut(r2.text, r2.detail, <<"resolve_start", "resolve_end">>)
    ELSE ItinOut(NoJourneyFound, None, <<"resolve_start", "resolve_end", "journeys">>)

\* get_itinerary (lines 418-461).  r1, r2: what get_station_id did for the
\* start and the end; jr: the outcome of GET journeys.  Only ValueError is
\* caught around the two resolutions, and nothing is caught after the
\* journeys request: an exception there leaves the function.
get_itinerary(start_station, end_station, r1, r2, jr) ==
    IF NotGiven(start_station) \/ NotGiven(end_station)
    THEN ItinOut(ErrRequired, None, <<>>)
    ELSE IF contains_blocked(start_station) \/ contains_blocked(end_station)
    THEN ItinOut(NotSupported, None, <<>>)
    ELSE IF resolve_place_id(r1).kind = "raise"
    THEN ItinOut(RAISED, r1.detail, <<"resolve_start">>)
    ELSE IF resolve_place_id(r1).kind = "ValueError"
    THEN ItinOut(r1.text, r1.detail, <<"resolve_start">>)
    ELSE IF resolve_place_id(r2).kind = "raise"
    THEN ItinOut(RAISED, r2.detail, <<"resolve_start", "resolve_end">>)
    ELSE IF resolve_place_id(r2).kind = "ValueError"
    THEN ItinOut(r2.text, r2.detail, <<"resolve_start", "resolve_end">>)
    ELSE LET calls == <<"resolve_start", "resolve_end", "journeys">>
             journeys == jr.journeys
             filtered == SelectSeq(journeys, HasAllowedPT)
             use == IF filtered # <<>> THEN filtered ELSE journeys
             shown == Shown(use)
             options == [i \in 1..Len(shown) |-> Option(i, format_journey(shown[i]))]
         IN IF jr.kind = "http_error" THEN ItinOut(PrimRequestFailed, jr.cause, calls)
            ELSE IF jr.kind = "error" THEN ItinOut(ErrJourneys, jr.cause, calls)
            ELSE IF jr.kind = "not_object" THEN ItinOut(RAISED, "AttributeError", calls)
            ELSE IF journeys = <<>> THEN ItinOut(NoJourneyFound, None, calls)
            ELSE IF \E i \in 1..Len(journeys) : journeys[i].shape # "object"
                 THEN ItinOut(RAISED, "AttributeError", calls)
            ELSE IF \E i \in 1..Len(options) : options[i].total = <<RAISED>>
                 THEN [ItinOut(RAISED, "TypeError", calls) EXCEPT !.filtered = filtered]
            ELSE [ItinOut(BestOptions, None, calls) EXCEPT
                     !.filtered = filtered, !.options = options]

\* A step of get_itinerary was taken during the call.
Took(out, step) == \E i \in 1..Len(out.calls) : out.calls[i] = step

\* A resolved station, to see which steps a call takes.
SomeStation == Success("Nation", "stop_area:IDFM:2", "unknown", <<>>, <<>>)

\* What get_station_id(end) can give after get_station_id(start) gave r1 in
\* the same call of get_itinerary: a places answer kept for the start's
\* query is the one the end gets for the same query.
ResultsAfter(start, r1, end) ==
    {r \in StationResults(end) :
        (start = end /\ Asked(r1, "prim") /\ Asked(r, "prim")
           /\ (r1.ok \/ r1.text = StationNotFound
                  \/ (r1.text = ErrResolving /\ r1.detail = "not_object")))
        => (r.text = r1.text /\ r.detail = r1.detail /\ r.id = r1.id /\ r.name = r1.name)}

ItineraryNames == {"Nation", "chatelet", "Tramway T3", "Gare d'Austerlitz", "", None}

\* A caller asks for an itinerary.  The outcome of a step is drawn only when
\* the call takes the step.
GetItinerary ==
    /\ NoCallYet
    /\ \E start \in ItineraryNames, end \in ItineraryNames :
       \E r1 \in (IF Took(get_itinerary(start, end, SomeStation, SomeStation, NoRequest),
                         "resolve_start")
                 THEN StationResults(start) ELSE {NoOut}) :
       \E r2 \in (IF Took(get_itinerary(start, end, r1, SomeStation, NoRequest),
                         "resolve_end")
                 THEN ResultsAfter(start, r1, end) ELSE {NoOut}) :
       \E jr \in (IF Took(get_itinerary(start, end, r1, r2, NoRequest), "journeys")
                 THEN JourneysOutcomes ELSE {NoRequest}) :
          call' = [fn |-> "get_itinerary", start |-> start, end |-> end,
                   r1 |-> r1, r2 |-> r2, jr |-> jr,
                   out |-> get_itinerary(start, end, r1, r2, jr)]
    /\ UNCHANGED <<cfg, log, prodVars, sinkVars, resolved, placesCache>>

-----------------------------------------------------------------------------
(* tools/tools.py: get_disruption_context *)

\* The physical modes tried, in order, for a mode hint (lines 474-484).
Tries(mode_hint) ==
    IF mode_hint = "metro" THEN <<"Metro">>
    ELSE IF mode_hint = "bus" THEN <<"Bus">>
    ELSE IF mode_hint = "rer" THEN <<"RapidTransit", "LocalTrain", "regionalRail">>
    ELSE <<"Metro", "RapidTransit", "Bus">>

\* The fixed parts of the strings get_disruption_context returns.
DisruptionsFailed == "PRIM disruptions failed. Check PRIM_TOKEN / header apikey. Last error: "
NoDisruptionReported == "No disruption reported for "
NoMatchingDisruption == "No disruption found / No matching disruption"
LiveDisruptions == "## Live disruptions"

\* What the body of the first answered request holds: something that is not
\* an object, no line report, reports of which none passes the line filter
\* or has a disruption, or reports with disruptions to list.
ReportOutcomes == {"not_object", "none", "no_match", "match"}

\* get_disruption_context (lines 467-535).  firstOk: the position in the
\* tries of the first request that prim_get answers, 0 when every request
\* raises; causes: what made the requests before it fail, in order.
get_disruption_context(user_query, firstOk, causes, reports) ==
    LET q == normalize_text(user_query)
        tries == Tries(extract_mode_hint(q))
    IN IF contains_blocked(user_query)
       THEN [text |-> NotSupported, detail |-> None, calls |-> <<>>]
       ELSE IF firstOk = 0
       THEN [text |-> DisruptionsFailed, detail |-> causes[Len(tries)], calls |-> tries]
       ELSE LET calls == SubSeq(tries, 1, firstOk)
                used == tries[firstOk]
            IN IF reports = "not_object"
               THEN [text |-> RAISED, detail |-> "AttributeError", calls |-> calls]
               ELSE IF reports = "none"
               THEN [text |-> NoDisruptionReported, detail |-> used, calls |-> calls]
               ELSE IF reports = "no_match"
               THEN [text |-> NoMatchingDisruption, detail |-> None, calls |-> calls]
               ELSE [text |-> LiveDisruptions, detail |-> used, calls |-> calls]

DisruptionQueries == {"Metro 14", "bus", "RER", "Nation", "Gare d'Austerlitz", "Tramway T3", None}

\* A caller asks for the disruptions of a line or a mode.
GetDisruptionContext ==
    /\ NoCallYet
    /\ \E user_query \in DisruptionQueries :
       LET n == IF contains_blocked(user_query) THEN 0
                ELSE Len(Tries(extract_mode_hint(normalize_text(user_query))))
       IN \E firstOk \in 0..n :
          \E causes \in [1..(IF firstOk = 0 THEN n ELSE firstOk - 1) ->
                            HttpStatuses \cup OtherCauses] :
          \E reports \in (IF firstOk = 0 THEN {"none"} ELSE ReportOutcomes) :
             call' = [fn |-> "get_disruption_context", user_query |-> user_query,
                      firstOk |-> firstOk, causes |-> causes, reports |-> reports,
                      out |-> get_disruption_context(user_query, firstOk, causes, reports)]
    /\ UNCHANGED <<cfg, log, prodVars, sinkVars, resolved, placesCache>>

-----------------------------------------------------------------------------
(* Initial state: nothing published, nothing indexed. *)

Configs ==
    {c \in [sys : {"disruptions", "stations"}, feed : {"producer", "external"},
            variant : {"bulk", "direct", "n/a"}, nparts : 1..MaxPartitions,
            runs : 0..MaxCycles, upstream : {"wellformed", "any"},
            continuous : BOOLEAN] :
        /\ (c.sys = "disruptions") <=> (c.variant = "n/a")
        /\ c.continuous => (c.sys = "disruptions" /\ c.feed = "producer")
        /\ (c.feed = "external") => (c.upstream = "wellformed")
        /\ (c.feed = "external") <=> (c.runs = 0)}

InitRest ==
    /\ log = [t \in Topics |-> [p \in Parts |-> <<>>]]
    /\ pbuf = <<>>
    /\ p_pc = "idle"
    /\ p_cycle = 0
    /\ p_mode = 0
    /\ p_todo = <<>>
    /\ attempted = {}
    /\ pos = [p \in Parts |-> 0]
    /\ committed = [p \in Parts |-> 0]
    /\ index = [i \in IndexNames |-> {}]
    /\ actions = <<>>
    /\ embCache = EmptyCache
    /\ sunk = [msg |-> NoMsg, result |-> "none"]
    /\ failed = {}
    /\ redelivered = FALSE
    /\ resolved = NoCall
    /\ call = NoToolCall
    /\ placesCache = {}

InitSinks ==
    /\ cfg \in {c \in Configs : c.feed = "external" /\ c.nparts = 1}
    /\ InitRest

NextSinks ==
    \/ ExternalPublish
    \/ DisturbanceSink_Poll
    \/ DisturbanceSink_KafkaError
    \/ StationsSink_PollBulk
    \/ StationsSink_FlushBulk
    \/ StationsSink_PollDirect
    \/ AutoCommit
    \/ SinkRestart

SpecSinks == InitSinks /\ [][NextSinks]_vars

\* The process of the disruption sink, never killed: its outer loop (lines
\* 67-121) goes on for ever, so an iteration that can get a message
\* eventually runs.
InitSinkLoop ==
    /\ cfg \in {c \in Configs : c.sys = "disruptions" /\ c.feed = "external"
                                 /\ c.nparts = 1}
    /\ InitRest

NextSinkLoop ==
    \/ ExternalPublish
    \/ DisturbanceSink_Poll
    \/ DisturbanceSink_KafkaError
    \/ AutoCommit

SpecSinkLoop == InitSinkLoop /\ [][NextSinkLoop]_vars /\ WF_vars(DisturbanceSink_Poll)

\* A deployment fed by the repository's producer, with its sink; the
\* disruption sink's topic may also be fed by another publisher.
InitPipeline ==
    /\ cfg \in {c \in Configs :
                   /\ c.feed = "external" => (c.nparts = 1 /\ c.sys = "disruptions")
                   /\ c.feed = "producer" =>
                         c.runs = (IF c.nparts = 1 THEN MaxCycles ELSE 1)
                   /\ c.upstream = "wellformed" /\ ~c.continuous}
    /\ InitRest

NextPipeline ==
    \/ ExternalPublish
    \/ Producer_StartCycle
    \/ ProducerDeliver
    \/ DisturbanceProducer_Fetch
    \/ DisturbanceProducer_Publish
    \/ DisturbanceProducer_Flush
    \/ StationProducer_Fetch
    \/ StationProducer_Publish
    \/ StationProducer_Flush
    \/ DisturbanceSink_Poll
    \/ StationsSink_PollBulk
    \/ StationsSink_FlushBulk
    \/ StationsSink_PollDirect

SpecPipeline == InitPipeline /\ [][NextPipeline]_vars

\* One run of the station pipeline on a one-partition topic, and the callers
\* of the station resolution.
InitResolve ==
    /\ cfg \in {c \in Configs : c.sys = "stations" /\ c.feed = "producer"
                                 /\ c.nparts = 1 /\ c.runs = 1
                                 /\ c.upstream = "wellformed"}
    /\ InitRest

NextResolve ==
    \/ Producer_StartCycle
    \/ ProducerDeliver
    \/ StationProducer_Fetch
    \/ StationProducer_Publish
    \/ StationProducer_Flush
    \/ StationsSink_PollBulk
    \/ StationsSink_FlushBulk
    \/ StationsSink_PollDirect
    \/ Resolve

SpecResolve == InitResolve /\ [][NextResolve]_vars

\* The documents a station sink may have left in the index the tools search.
IndexedStations ==
    {[StationBulkDoc(m) EXCEPT !._id = StationBulkDocId(m)] :
        m \in {DataMsg("stop_area:IDFM:2", "Metro", "Nation", 1),
               DataMsg("SA:1", "Metro", "Châtelet", 1),
               DataMsg("stop_area:IDFM:2", "Bus", "Nation", 1)}}

\* The callers of tools.py over an index filled earlier.
InitTools ==
    /\ cfg \in {c \in Configs : c.sys = "stations" /\ c.feed = "external"
                                 /\ c.variant = "bulk" /\ c.nparts = 1}
    /\ log = [t \in Topics |-> [p \in Parts |-> <<>>]]
    /\ pbuf = <<>>
    /\ p_pc = "idle"
    /\ p_cycle = 0
    /\ p_mode = 0
    /\ p_todo = <<>>
    /\ attempted = {}
    /\ pos = [p \in Parts |-> 0]
    /\ committed = [p \in Parts |-> 0]
    /\ index \in {[i \in IndexNames |-> IF i = STATIONS_INDEX THEN docs ELSE {}] :
                    docs \in SUBSET IndexedStations}
    /\ actions = <<>>
    /\ embCache = EmptyCache
    /\ sunk = [msg |-> NoMsg, result |-> "none"]
    /\ failed = {}
    /\ redelivered = FALSE
    /\ resolved = NoCall
    /\ call = NoToolCall
    /\ placesCache = {}

NextTools ==
    \/ Resolve
    \/ AllowedSection
    \/ GetItinerary
    \/ GetDisruptionContext

SpecTools == InitTools /\ [][NextTools]_vars

\* The places of a GET places response: embedded_type and quality, the two
\* fields _best_place_from_prim reads.
MaxPlaces == 3
PlaceTypes == {"stop_area", "address", "poi"}
Qualities == {0, 90, 1100}
PlaceLists ==
    {[given |-> TRUE, list |-> l] :
        l \in SeqsUpTo([embedded_type : PlaceTypes, quality : Qualities], MaxPlaces)}
    \cup {[given |-> FALSE, list |-> <<>>]}

\* score(p) (lines 216-220)
PlaceScore(p) == (IF p.embedded_type = "stop_area" THEN 1000 ELSE 0) + p.quality

\* _best_place_from_prim(places_json) (lines 211-223): None without places,
\* else the head of the list sorted by score, highest first; the sort is
\* stable, so among equal scores the earliest place of the response wins.
best_place_from_prim(places_json) ==
    LET places == IF places_json.given THEN places_json.list ELSE <<>>
    IN IF places = <<>> THEN [found |-> FALSE, at |-> 0]
       ELSE [found |-> TRUE,
             at |-> CHOOSE i \in 1..Len(places) :
                       /\ \A j \in 1..Len(places) : PlaceScore(places[j]) <= PlaceScore(places[i])
                       /\ \A j \in 1..(i - 1) : PlaceScore(places[j]) < PlaceScore(places[i])]

\* _best_place_from_prim is applied to a places response.
BestPlace ==
    /\ NoCallYet
    /\ \E places_json \in PlaceLists :
          call' = [fn |-> "_best_place_from_prim", places |-> places_json,
                   out |-> best_place_from_prim(places_json)]
    /\ UNCHANGED <<cfg, log, prodVars, sinkVars, resolved, placesCache>>

NextPlaces ==
    \/ BestPlace

SpecPlaces == InitTools /\ [][NextPlaces]_vars

\* Two calls of get_station_id, one after the other, in one process.
NextCalls ==
    \/ Resolve
    \/ ResolveAgain

SpecCalls == InitTools /\ [][NextCalls]_vars

\* The formatting functions of tools.py, applied alone.
NextFormat ==
    \/ FormatDuration

SpecFormat == InitTools /\ [][NextFormat]_vars

\* The producers alone, publishing to their topics.
InitProducers ==
    /\ cfg \in {c \in Configs : c.feed = "producer" /\ c.variant # "direct"
                                 /\ c.runs = MaxCycles /\ c.upstream = "wellformed"
                                 /\ ~c.continuous}
    /\ InitRest

NextProducers ==
    \/ Producer_StartCycle
    \/ ProducerDeliver
    \/ DisturbanceProducer_Fetch
    \/ DisturbanceProducer_Publish
    \/ DisturbanceProducer_Flush
    \/ StationProducer_Fetch
    \/ StationProducer_Publish
    \/ StationProducer_Flush

SpecProducers == InitProducers /\ [][NextProducers]_vars

\* One run of a producer against an upstream that may send anything.
InitFeeds ==
    /\ cfg \in {c \in Configs : c.feed = "producer" /\ c.variant # "direct"
                                 /\ c.runs = 1 /\ c.upstream = "any" /\ ~c.continuous}
    /\ InitRest

SpecFeeds == InitFeeds /\ [][NextProducers]_vars

-----------------------------------------------------------------------------
(* scripts/disturbance_producer.py __main__ *)

\* LOOP_INTERVAL_SECONDS = os.getenv("LOOP_INTERVAL_SECONDS", "300") (line
\* 15): os.getenv gives the text of the variable, or the default, a text.
LOOP_INTERVAL_SECONDS == [type |-> "str", text |-> "300"]

\* time.sleep(secs) returns for a number and raises TypeError otherwise.
SleepReturns(secs) == secs.type \in {"int", "float"}

\* Lines 144 and 152: the process calls run_producer() for the first time.
Main_RunProducer ==
    /\ cfg.sys = "disruptions" /\ cfg.feed = "producer"
    /\ p_pc = "idle" /\ p_cycle = 0
    /\ p_cycle' = 1
    /\ p_mode' = 1
    /\ p_pc' = "fetch"
    /\ attempted' = {}
    /\ p_todo' = <<>>
    /\ UNCHANGED <<cfg, log, pbuf, sinkVars, toolVars>>

\* Lines 145-149 with CONTINUOUS_RUN: after run_producer() returned (an
\* exception of it is caught at 146), time.sleep(LOOP_INTERVAL_SECONDS)
\* stands outside the try; when it returns the loop calls run_producer()
\* again, when it raises the process ends.
Main_Sleep ==
    /\ cfg.continuous /\ p_pc = "done"
    /\ IF SleepReturns(LOOP_INTERVAL_SECONDS)
       THEN /\ p_cycle < cfg.runs
            /\ p_cycle' = p_cycle + 1
            /\ p_mode' = 1
            /\ p_pc' = "fetch"
            /\ attempted' = {}
            /\ p_todo' = <<>>
       ELSE /\ p_pc' = "crashed"
            /\ UNCHANGED <<p_cycle, p_mode, attempted, p_todo>>
    /\ UNCHANGED <<cfg, log, pbuf, sinkVars, toolVars>>

\* Lines 151-154 without CONTINUOUS_RUN: exit(0) after the one run.
Main_Exit ==
    /\ cfg.sys = "disruptions" /\ cfg.feed = "producer"
    /\ ~cfg.continuous /\ p_pc = "done"
    /\ p_pc' = "exited"
    /\ UNCHANGED <<cfg, log, pbuf, p_cycle, p_mode, p_todo, attempted, sinkVars, toolVars>>

\* The process of the disruption producer, from its start.
InitMain ==
    /\ cfg \in {c \in Configs : c.sys = "disruptions" /\ c.feed = "producer"
                                 /\ c.runs = MaxCycles /\ c.upstream = "any"}
    /\ InitRest

NextMain ==
    \/ Main_RunProducer
    \/ DisturbanceProducer_Fetch
    \/ DisturbanceProducer_Publish
    \/ DisturbanceProducer_Flush
    \/ Main_Sleep
    \/ Main_Exit

\* The process keeps running: a step that can be taken is taken.
SpecMain == InitMain /\ [][NextMain]_vars /\ WF_vars(NextMain)

-----------------------------------------------------------------------------
(* What the producer has published *)

\* The messages of a topic that reached the broker, and those still queued.
LogSlots(topic) ==
    {s \in (Parts \X (1..TotalLen(log, topic))) : s[2] <= Len(log[topic][s[1]])}
LogMsg(topic, s) == log[topic][s[1]][s[2]]
QueuedSlots == 1..Len(pbuf)

ClearsDelivered(topic, c, m) ==
    {s \in LogSlots(topic) : LogMsg(topic, s) = ControlMsg(m, c)}
ClearsQueued(c, m) ==
    {i \in QueuedSlots : pbuf[i].msg = ControlMsg(m, c)}

\* C3 -- clear before publish.  Whenever a data record of a group has been
\* produced in a cycle (queued or delivered), exactly one CLEAR scoped to
\* that group and of that cycle has already been delivered to the broker
\* (flushed), and no cycle ever holds a second CLEAR for a group.
C3_ClearBeforePublish ==
    LET topic == ProducerTopic(cfg.sys)
        produced == {LogMsg(topic, s) : s \in LogSlots(topic)}
                    \cup {pbuf[i].msg : i \in QueuedSlots}
    IN /\ \A d \in produced :
            ~IsControl(d) =>
                /\ Cardinality(ClearsDelivered(topic, d.cyc, d.mode)) = 1
                /\ ClearsQueued(d.cyc, d.mode) = {}
       /\ \A c \in 1..MaxCycles + 1, i \in 1..NumModes :
            Cardinality(ClearsDelivered(topic, c, ModeList(cfg.sys)[i]))
              + Cardinality(ClearsQueued(c, ModeList(cfg.sys)[i])) <= 1

\* A record of the second cycle is on a two-partition topic, behind its CLEAR.
C3_Witness ==
    /\ cfg.nparts = 2
    /\ p_pc = "done"
    /\ \E s \in LogSlots(ProducerTopic(cfg.sys)) :
          LET d == LogMsg(ProducerTopic(cfg.sys), s)
          IN ~IsControl(d) /\ d.cyc = 2

\* C8 -- producer failure isolation.  When a run of the producer is over,
\* the fetch of every configured group was attempted in it, whatever
\* fetches failed.
C8_FailureIsolation ==
    p_pc \in {"done", "aborted"} => attempted = 1..NumModes

-----------------------------------------------------------------------------
(* What the sinks do to the index *)

\* The loop iteration just taken polled a message and handled it.
PollResults == {"cleared", "indexed", "skipped", "buffered", "failed"}

KeyDocs(docs, id, mode) == {d \in docs : d.id = id /\ d.mode = mode}

\* C1 -- idempotent upsert.  Right after a sink indexed a data record, the
\* index holds exactly one document with the record's uniqueness key
\* (id, mode), and that document holds the record's field values.
C1_IdempotentUpsert ==
    sunk.result = "indexed" =>
        LET docs == KeyDocs(index[SinkIndex(cfg)], sunk.msg.id, sunk.msg.mode)
        IN /\ Cardinality(docs) = 1
           /\ \A d \in docs : d.name = sunk.msg.name

\* C2 -- clear scoping.  A loop iteration that handled a CLEAR with the
\* index store answering removed the documents of the scope mode (all
\* documents when the scope is absent), left the others as they were, and
\* did not turn the control message into a document or an index action.
C2_ClearScoping ==
    [][ ( /\ pos' # pos
          /\ sunk'.result \in PollResults \ {"failed"}
          /\ IsControl(sunk'.msg) )
        => /\ sunk'.result = "cleared"
           /\ actions' = actions
           /\ index' = [index EXCEPT ![SinkIndex(cfg)] =
                          IF sunk'.msg.mode = None THEN {}
                          ELSE {d \in @ : d.mode # sunk'.msg.mode}]
      ]_vars

\* C6 -- offset safety.  The committed offset of a partition never passes a
\* data record whose index write failed and that was not indexed since.
C6_OffsetSafety ==
    \A f \in failed : committed[f[1]] < f[2]

\* The documents after the disruption sink has handled msgs in order from
\* docs, vecs[i] being the outcome of the vector computation for msgs[i].
RECURSIVE DisruptionSinkRun(_, _, _)
DisruptionSinkRun(docs, msgs, vecs) ==
    IF msgs = <<>> THEN docs
    ELSE DisruptionSinkRun(DisruptionSinkHandle(docs, Head(msgs), Head(vecs)),
                           Tail(msgs), Tail(vecs))

VecOutcomes(n) == [1..n -> {"ok", "fail"}]
Suffix(q, k) == SubSeq(q, k, Len(q))

\* The log of the disruption sink's topic (one partition).
DSinkLog == log[DSinkTopic][1]

-----------------------------------------------------------------------------
(* The pipeline end to end *)

\* What the sink has consumed of a topic's partition.
Consumed(topic, q) == IF topic \in SinkTopics(cfg) THEN pos[q] ELSE 0

\* The sink has consumed, and indexed without failure, all that the producer
\* has published; nothing is queued on either side.
PublishedAllConsumed ==
    /\ cfg.feed = "producer"
    /\ p_pc \in {"done", "aborted"}
    /\ pbuf = <<>>
    /\ \A q \in Parts : Consumed(ProducerTopic(cfg.sys), q) = Len(log[ProducerTopic(cfg.sys)][q])
    /\ actions = <<>>
    /\ failed = {}

\* C4 -- no late clear.  The sink never applies the CLEAR of a cycle and mode
\* while the index holds a document indexed from a record of that cycle and
\* mode.
C4_NoLateClear ==
    [][ ( /\ pos' # pos
          /\ sunk'.result = "cleared"
          /\ sunk'.msg.cyc > 0 )
        => ~ \E d \in index[SinkIndex(cfg)] :
                d.mode = sunk'.msg.mode /\ d.cyc = sunk'.msg.cyc
      ]_vars

\* The ids of the records the producer published for a group after the last
\* CLEAR of that group, on a one-partition topic.
RECURSIVE LatestIds(_, _)
LatestIds(lg, mode) ==
    IF lg = <<>> THEN {}
    ELSE LET m == lg[Len(lg)]
             before == SubSeq(lg, 1, Len(lg) - 1)
         IN IF m.mode # mode THEN LatestIds(before, mode)
            ELSE IF IsControl(m) THEN {}
            ELSE {m.id} \cup LatestIds(before, mode)

\* C5 -- supersede, not merge.  Once the sink has consumed in log order all
\* that the producer published, the documents of each mode are those of the
\* records published for the mode since its last CLEAR.
C5_Supersede ==
    (PublishedAllConsumed /\ cfg.nparts = 1) =>
        \A i \in 1..NumModes :
            LET mode == ModeList(cfg.sys)[i]
            IN {d.id : d \in {x \in index[SinkIndex(cfg)] : x.mode = mode}}
                 = LatestIds(log[ProducerTopic(cfg.sys)][1], mode)

\* C9 -- pipeline liveness for disruptions.  When the producer's run is over
\* and the disruption sink has nothing left to poll, every disruption
\* published in the run whose vector could be computed is in the index.
C9_DisruptionsReachIndex ==
    ( /\ cfg.sys = "disruptions" /\ cfg.feed = "producer"
      /\ p_pc = "done" /\ pbuf = <<>>
      /\ \A q \in Parts : ~HasNext(q)
      /\ failed = {} )
    => \A s \in LogSlots(DProducerTopic) :
          LET d == LogMsg(DProducerTopic, s)
          IN (~IsControl(d) /\ d.cyc = p_cycle)
               => \/ embCache[d.name] = "fail"
                  \/ KeyDocs(index[DIndexName], d.id, d.mode) # {}

\* C10 -- end-to-end station scenario.  Once the station sink has consumed
\* the CLEAR of the metro group and the station SA:1 "Châtelet" that follows
\* it, the station is in the index the resolution queries, and a resolution
\* of "chatelet" made then returns the id SA:1.
C10_EndToEnd ==
    /\ StationScenarioConsumed =>
          \E d \in index[STATIONS_INDEX] : d.id = "SA:1" /\ d.name = "Châtelet"
    /\ (resolved.q = "chatelet" /\ resolved.scenario) =>
          (resolved.out.ok /\ resolved.out.id = "SA:1")

-----------------------------------------------------------------------------
(* The tools: itinerary *)

\* The family of a commercial mode, as the specification names them.
ModeFamily(cm) ==
    CASE cm \in {"Metro", "Métro"} -> "metro"
      [] cm = "Bus" -> "bus"
      [] cm \in {"RER", "RapidTransit", "Train Transilien"} -> "rer"
      [] cm = "Tramway" -> "tram"
      [] cm = "TER" -> "ter"
      [] OTHER -> "other"

\* C11 -- allowed-section rule.  For a public_transport section,
\* _allowed_section returns true exactly when the commercial mode is of the
\* metro, bus or RER family, whatever the section's other fields hold.
C11_AllowedByCommercialMode ==
    (call.fn = "_allowed_section" /\ call.section.type = PT) =>
        (call.out <=> ModeFamily(call.section.commercial_mode) \in {"metro", "bus", "rer"})

\* The journeys of the response of the last get_itinerary call.
ItinJourneys == call.jr.journeys

\* A get_itinerary call went as far as printing journeys.
ItinPrinted == call.fn = "get_itinerary" /\ call.out.text = BestOptions

InSeq(x, seq) == \E i \in 1..Len(seq) : seq[i] = x

PTSections(journey) ==
    {journey.sections[i] : i \in {k \in 1..Len(journey.sections) :
                                     journey.sections[k].type = PT}}

C12_EligibleIffAllowedPT ==
    ItinPrinted =>
        \A i \in 1..Len(ItinJourneys) :
            InSeq(ItinJourneys[i], call.out.filtered)
                <=> (\E sec \in PTSections(ItinJourneys[i]) : allowed_section(sec))

C12_TramwayOnlyNeverEligible ==
    ItinPrinted =>
        \A i \in 1..Len(ItinJourneys) :
            (/\ PTSections(ItinJourneys[i]) # {}
             /\ \A sec \in PTSections(ItinJourneys[i]) : sec.commercial_mode = "Tramway")
            => /\ ~InSeq(ItinJourneys[i], call.out.filtered)
               /\ call.out.filtered # <<>> =>
                      \A k \in 1..Len(call.out.options) :
                          call.out.options[k].source # ItinJourneys[i]

C12_MetroEligible ==
    ItinPrinted =>
        \A i \in 1..Len(ItinJourneys) :
            (\E sec \in PTSections(ItinJourneys[i]) : sec.commercial_mode = "Metro")
            => InSeq(ItinJourneys[i], call.out.filtered)

C12_OnlyEligibleRendered ==
    (ItinPrinted /\ call.out.filtered # <<>>) =>
        \A k \in 1..Len(call.out.options) :
            InSeq(call.out.options[k].source, call.out.filtered)

\* C12 -- eligibility.  After a get_itinerary call that printed journeys: a
\* journey of the response is in the eligible set exactly when one of its
\* public_transport sections is allowed; a journey whose public-transport
\* sections are all "Tramway" is not eligible and is not printed when some
\* journey is eligible; a journey with a "Metro" section is eligible; and
\* when some journey is eligible only eligible journeys are printed.
C12_Eligibility ==
    /\ C12_EligibleIffAllowedPT
    /\ C12_TramwayOnlyNeverEligible
    /\ C12_MetroEligible
    /\ C12_OnlyEligibleRendered

\* The last call was get_itinerary, it asked for journeys and got a response
\* with at least one journey, every journey of the expected shape.
ItinWellFormedResponse ==
    /\ call.fn = "get_itinerary"
    /\ call.jr.kind = "response"
    /\ ItinJourneys # <<>>
    /\ \A i \in 1..Len(ItinJourneys) :
          ItinJourneys[i].shape = "object" /\ ItinJourneys[i].duration.kind # "str"

NoneEligible ==
    \A i \in 1..Len(ItinJourneys) :
        \A sec \in PTSections(ItinJourneys[i]) : ~allowed_section(sec)

PTLegs(option) == {k \in 1..Len(option.legs) : option.legs[k].type = PT}

PTPositions(journey) ==
    {k \in 1..Len(journey.sections) : journey.sections[k].type = PT}

C13_FallbackShowsTopJourneys ==
    (ItinWellFormedResponse /\ NoneEligible) =>
        /\ call.out.text = BestOptions
        /\ Len(call.out.options) = (IF Len(ItinJourneys) < 3 THEN Len(ItinJourneys) ELSE 3)
        /\ \A k \in 1..Len(call.out.options) : call.out.options[k].source = ItinJourneys[k]

\* C13 -- graceful degradation.  When the response holds journeys and none is
\* eligible, get_itinerary prints the first (up to 3) journeys of the
\* response, in order, and each printed journey lists every one of its
\* public-transport legs.
C13_GracefulDegradation ==
    /\ C13_FallbackShowsTopJourneys
    /\ (ItinWellFormedResponse /\ NoneEligible) =>
          \A k \in 1..Len(call.out.options) :
              Cardinality(PTLegs(call.out.options[k]))
                  = Cardinality(PTPositions(call.out.options[k].source))

\* The candidates the index path gave the call recorded in r, over the index
\* as it is.
IndexCandidates(r) == Candidates(r.hits)

\* r records a call of get_station_id that searched the index and got an
\* answer from the store: hits (possibly none) or an error.
IndexAnswered(r) == r.q # None /\ r.es \in {"hits", "error"}

\* C14 -- resolution fallback order.  In every call of get_station_id that
\* reaches the index: the index is asked first; the places lookup is asked
\* exactly when the index path gave no usable candidate (no hit, or the
\* store failed); a place found by the lookup gives a resolved station with
\* the place's id and mode "unknown"; and when the lookup finds nothing
\* either the result is "Station not found".
C14_FallbackOrder ==
    [][ (Resolve /\ IndexAnswered(resolved')) =>
          LET r == resolved'
              out == r.out
          IN /\ out.calls[1] = "es"
             /\ Asked(out, "prim") <=> IndexCandidates(r) = <<>>
             /\ Asked(out, "prim") => out.calls = <<"es", "prim">>
             /\ (IndexCandidates(r) = <<>> /\ r.prim.kind = "place") =>
                   /\ out.ok /\ out.mode = "unknown"
                   /\ out.id = r.prim.place.id /\ out.name = r.prim.place.name
             /\ (IndexCandidates(r) = <<>> /\ r.prim.kind = "empty") =>
                   /\ ~out.ok /\ out.text = StationNotFound
                   /\ out.text \notin {PrimErrorHttp, ErrResolving}
      ]_vars

\* "Nation" is not in the index, the index search answered, and the places
\* lookup resolved it.
C14_Witness ==
    /\ resolved.q = "Nation" /\ resolved.es = "hits"
    /\ \A d \in index[STATIONS_INDEX] : d.name # "Nation"
    /\ resolved.out.ok /\ resolved.out.calls = <<"es", "prim">>
    /\ resolved.out.mode = "unknown"

\* The normalized text of a name contains a blocked-mode keyword.
NamesBlockedMode(t) ==
    t # None /\ \E k \in {"tram", "ter"} : Has(normalize_text(t), k)

\* The last get_itinerary call returned the Blocked rejection at once: no
\* endpoint resolved, no journeys request.
ItinBlockedAtOnce ==
    /\ call.out.text = NotSupported
    /\ call.out.calls = <<>>
    /\ call.r1 = NoOut /\ call.r2 = NoOut /\ call.jr = NoRequest

StationBlockedAtOnce ==
    (resolved.q # None /\ NamesBlockedMode(resolved.q)) =>
        /\ resolved.out.text = NotSupported
        /\ resolved.out.calls = <<>>
        /\ resolved.es = None /\ resolved.prim = NoPrim

\* C15 as stated -- Blocked is immediate: get_station_id on a name with a
\* blocked-mode keyword returns the Blocked rejection without asking the
\* index or the Transit API, and get_itinerary returns it, before any
\* resolution and any journeys request, when either endpoint contains
\* such a keyword.
C15_BlockedImmediateAnyEndpoint ==
    /\ StationBlockedAtOnce
    /\ (call.fn = "get_itinerary"
        /\ (NamesBlockedMode(call.start) \/ NamesBlockedMode(call.end)))
       => ItinBlockedAtOnce

\* C15 -- Blocked is immediate, as the code has it: the same, for
\* get_itinerary when both endpoints are given (neither absent nor the
\* empty string) and either contains a blocked-mode keyword.
C15_BlockedImmediate ==
    /\ StationBlockedAtOnce
    /\ (call.fn = "get_itinerary"
        /\ ~NotGiven(call.start) /\ ~NotGiven(call.end)
        /\ (NamesBlockedMode(call.start) \/ NamesBlockedMode(call.end)))
       => ItinBlockedAtOnce

\* An itinerary from a station to a tram line was rejected.
C15_Witness ==
    /\ call.fn = "get_itinerary"
    /\ call.start = "Nation" /\ call.end = "Tramway T3"
    /\ ItinBlockedAtOnce

\* The request text references tram or TER: one of its words, once
\* normalized, is one of these.
UnsupportedModeWords == {"tram", "tramway", "ter"}

RECURSIVE WordsOf(_, _)
\* The words of a character sequence, cur being the word under way.
WordsOf(chars, cur) ==
    IF chars = <<>> THEN (IF cur = <<>> THEN {} ELSE {cur})
    ELSE IF Head(chars) = " "
         THEN (IF cur = <<>> THEN {} ELSE {cur}) \cup WordsOf(Tail(chars), <<>>)
         ELSE WordsOf(Tail(chars), Append(cur, Head(chars)))

ReferencesUnsupportedMode(t) ==
    t # None /\ \E w \in UnsupportedModeWords :
                   Chars(w) \in WordsOf(Chars(normalize_text(t)), <<>>)

\* C16 -- Blocked only for unsupported modes.  get_station_id, get_itinerary
\* and get_disruption_context return the Blocked rejection only when the
\* request text references tram or TER.
C16_BlockedOnlyForUnsupported ==
    /\ resolved.out.text = NotSupported => ReferencesUnsupportedMode(resolved.q)
    /\ (call.fn = "get_itinerary" /\ call.out.text = NotSupported) =>
          (ReferencesUnsupportedMode(call.start) \/ ReferencesUnsupportedMode(call.end))
    /\ (call.fn = "get_disruption_context" /\ call.out.text = NotSupported) =>
          ReferencesUnsupportedMode(call.user_query)

\* get_station_id returned a failure text for the endpoint (it did not raise).
FailedToResolve(r) == ~r.ok /\ r.text \notin {None, RAISED}

\* C17 -- itinerary short-circuit.  get_itinerary resolves the start, then
\* the end.  When the start fails to resolve the result is the start's
\* failure text and neither the end resolution nor the journeys request
\* takes place; when the end fails the result is the end's failure text and
\* no journeys request takes place; the journeys request is made only after
\* both endpoints resolved.
C17_ShortCircuit ==
    call.fn = "get_itinerary" =>
        /\ Took(call.out, "resolve_end") =>
              (call.out.calls[1] = "resolve_start" /\ call.out.calls[2] = "resolve_end"
               /\ call.r1.ok)
        /\ FailedToResolve(call.r1) =>
              /\ call.out.text = call.r1.text /\ call.out.detail = call.r1.detail
              /\ call.out.calls = <<"resolve_start">>
              /\ call.r2 = NoOut /\ call.jr = NoRequest
        /\ FailedToResolve(call.r2) =>
              /\ call.out.text = call.r2.text /\ call.out.detail = call.r2.detail
              /\ call.out.calls = <<"resolve_start", "resolve_end">>
              /\ call.jr = NoRequest
        /\ Took(call.out, "journeys") =>
              /\ call.r1.ok /\ call.r2.ok
              /\ call.out.calls = <<"resolve_start", "resolve_end", "journeys">>
        /\ call.jr # NoRequest => Took(call.out, "journeys")

\* The start resolved, the end was not found, and that is the result.
C17_Witness ==
    /\ call.fn = "get_itinerary"
    /\ call.r1.ok /\ call.r2.text = StationNotFound
    /\ call.out.text = StationNotFound /\ call.out.detail = call.end

C18_StationNeverRaises == resolved.out.text # RAISED

C18_ItineraryNeverRaises == call.fn = "get_itinerary" => call.out.text # RAISED

\* C18 -- no crash on a single request.  Whatever the index store and the
\* Transit API answer, get_station_id and get_itinerary return a text and do
\* not raise, and a places or journeys body of an unexpected shape gives the
\* not-found / no-journey result.
C18_NoCrash ==
    /\ C18_StationNeverRaises
    /\ C18_ItineraryNeverRaises
    /\ (resolved.prim.kind = "error" /\ resolved.prim.cause = "not_object")
          => resolved.out.text = StationNotFound
    /\ (call.fn = "get_itinerary" /\ call.jr.kind = "not_object")
          => call.out.text = NoJourneyFound

\* The key is rejected (HTTP 401) or missing.
AuthCauses == {"401", "token_missing"}
\* Upstream failures that have nothing to do with the key.
UnrelatedCauses == {"500", "timeout", "connection"}

PrimFailure(cause) ==
    [kind |-> IF cause \in HttpStatuses THEN "http_error" ELSE "error",
     cause |-> cause, place |-> NoPlace]

JourneysFailure(cause) ==
    [kind |-> IF cause \in HttpStatuses THEN "http_error" ELSE "error",
     cause |-> cause, journeys |-> <<>>, disruptions |-> <<>>]

C19_StationAuthDistinct ==
    (resolved.prim.kind \in {"http_error", "error"} /\ resolved.prim.cause \in AuthCauses) =>
        \A c \in UnrelatedCauses :
            get_station_id(resolved.q, resolved.es, <<>>, NoCandidate, PrimFailure(c)).text
                # resolved.out.text

C19_ItineraryAuthDistinct ==
    (call.fn = "get_itinerary" /\ call.jr.kind \in {"http_error", "error"}
     /\ call.jr.cause \in AuthCauses) =>
        \A c \in UnrelatedCauses :
            get_itinerary(call.start, call.end, call.r1, call.r2, JourneysFailure(c)).text
                # call.out.text

\* C19 -- distinct auth error.  When the Transit API rejects the key (401)
\* or the key is missing, the kind of result get_station_id and
\* get_itinerary return (the fixed text before the exception's own message)
\* is not the kind they return for another HTTP status, a network error or
\* a timeout.
C19_DistinctAuthError ==
    /\ C19_StationAuthDistinct
    /\ C19_ItineraryAuthDistinct

\* C20 -- vector failure isolation.  In every iteration of the disruption
\* sink's loop that handles a record: if the vector computation failed, the
\* index is left as it was and the sink goes on with its consumer (nothing
\* is closed or committed by the failure); if a vector was obtained and the
\* index store took the write, the record's document is in the index,
\* whatever happened to the records before it.
C20_VectorFailureIsolation ==
    [][ DisturbanceSink_Poll =>
          \A p \in Parts :
              pos'[p] # pos[p] =>
                  LET data == log[SinkTopic(cfg)][p][pos'[p]]
                  IN ~IsControl(data) =>
                        /\ embCache'[data.name] = "fail" =>
                              /\ index' = index
                              /\ sunk' = [msg |-> data, result |-> "skipped"]
                              /\ committed' = committed
                        /\ (embCache'[data.name] = "ok" /\ sunk'.result # "failed") =>
                              /\ sunk' = [msg |-> data, result |-> "indexed"]
                              /\ [Doc(None, data) EXCEPT !._id = DisruptionDocId(data)]
                                     \in index'[DIndexName]
      ]_vars

\* The sink skipped the first record of the log for want of a vector and
\* then indexed the second.
C20_Witness ==
    /\ cfg.sys = "disruptions"
    /\ ~redelivered /\ failed = {}
    /\ Len(DSinkLog) >= 2 /\ pos[1] = 2
    /\ ~IsControl(DSinkLog[1]) /\ ~IsControl(DSinkLog[2])
    /\ embCache[DSinkLog[1].name] = "fail"
    /\ DisruptionDocId(DSinkLog[1]) # DisruptionDocId(DSinkLog[2])
    /\ sunk = [msg |-> DSinkLog[2], result |-> "indexed"]
    /\ \A d \in index[DIndexName] : d._id = DisruptionDocId(DSinkLog[2])
    /\ index[DIndexName] # {}

\* A fetched stop area passes the station filter: non-empty id and name.
PassesStationFilter(station) == station.id \notin {"", None} /\ station.name \notin {"", None}

\* The stop area is queued as a station record of the current group.
StationQueued(station) ==
    /\ Len(pbuf') = Len(pbuf) + 1
    /\ pbuf'[Len(pbuf')].topic = SProducerTopic
    /\ pbuf'[Len(pbuf')].msg = DataMsg(station.id, SModes[p_mode], station.name, p_cycle)

C21_GoodStationsPublished ==
    [][ StationProducer_Publish =>
          ((PassesStationFilter(Head(p_todo)) /\ Head(p_todo).coord)
              => (StationQueued(Head(p_todo)) /\ p_todo' = Tail(p_todo))) ]_vars

C21_FilteredStationsSkipped ==
    [][ StationProducer_Publish =>
          (~PassesStationFilter(Head(p_todo)) => pbuf' = pbuf) ]_vars

C21_BadStationDoesNotStopOthers ==
    [][ StationProducer_Publish =>
          (~(PassesStationFilter(Head(p_todo)) /\ Head(p_todo).coord)
              => p_todo' = Tail(p_todo)) ]_vars

\* C21 -- station filter and per-record isolation.  In every step of the
\* station producer's loop over a fetched response: a stop area with a
\* non-empty id and name (and coordinates) is queued as a station record of
\* the group's mode; a stop area that fails the filter is not queued; and a
\* stop area that fails the filter or lacks coordinates leaves the rest of
\* the response to be walked.
C21_StationFilterIsolation ==
    [][ StationProducer_Publish =>
          LET station == Head(p_todo)
              good == PassesStationFilter(station) /\ station.coord
          IN /\ good => (StationQueued(station) /\ p_todo' = Tail(p_todo))
             /\ ~PassesStationFilter(station) => pbuf' = pbuf
             /\ ~good => p_todo' = Tail(p_todo) ]_vars

\* The data records of a cycle and a group that the producer has produced:
\* the places (in a partition of the topic, or in the local queue) they are at.
ProducedAt(c, m) ==
    LET topic == ProducerTopic(cfg.sys)
    IN {<<"log", sl>> : sl \in {x \in LogSlots(topic) :
                                  /\ ~IsControl(LogMsg(topic, x))
                                  /\ LogMsg(topic, x).cyc = c
                                  /\ LogMsg(topic, x).mode = m}}
       \cup {<<"queue", k>> : k \in {x \in QueuedSlots :
                                  /\ ~IsControl(pbuf[x].msg)
                                  /\ pbuf[x].msg.cyc = c /\ pbuf[x].msg.mode = m}}

ProducedMsg(at) ==
    IF at[1] = "log" THEN LogMsg(ProducerTopic(cfg.sys), at[2]) ELSE pbuf[at[2]].msg

\* C22 -- deduplication within a poll.  Within one cycle and one group a
\* producer never produces two data records with the same record id.
C22_DedupWithinPoll ==
    cfg.feed = "producer" =>
        \A c \in 1..MaxCycles, k \in 1..NumModes :
            \A a \in ProducedAt(c, ModeList(cfg.sys)[k]),
               b \in ProducedAt(c, ModeList(cfg.sys)[k]) :
                a # b => ProducedMsg(a).id # ProducedMsg(b).id

\* A batch size to hold the station sink to; stations_sink.py configures none.
BatchSize == 2

C23_BufferEmptyAfterFlush ==
    (cfg.sys = "stations" /\ cfg.variant = "bulk" /\ sunk.result = "flushed")
        => actions = <<>>

\* C23 -- bounded batching.  The station sink's buffer of pending upserts
\* never holds more than the batch size, and it is empty after a flush.
C23_BoundedBatching ==
    /\ (cfg.sys = "stations" /\ cfg.variant = "bulk") => Len(actions) <= BatchSize
    /\ C23_BufferEmptyAfterFlush

\* The disruptions of the last journeys response that a section links to.
LinkedDisruptions(section) ==
    {call.jr.disruptions[i] : i \in {k \in 1..Len(call.jr.disruptions) :
                                        call.jr.disruptions[k].id = section.link}}

\* C24 -- disruption overlay.  When get_itinerary prints a leg whose section
\* links to a disruption of the same response, the printed leg contains the
\* disruption's message text.
C24_DisruptionOverlay ==
    ItinPrinted =>
        \A k \in 1..Len(call.out.options) :
            LET opt == call.out.options[k]
                printed == PrintedSections(opt.source.sections)
            IN \A i \in 1..Len(opt.legs) :
                   \A d \in LinkedDisruptions(printed[i]) : d.text \in opt.legs[i].texts

\* The whole minutes in s seconds: the m with 60*m <= s < 60*(m+1).
WholeMinutes(s) == CHOOSE m \in 0..s : 60 * m <= s /\ s < 60 * (m + 1)

\* C25 -- duration formatting.  For every duration s >= 0 in seconds
\* _format_duration gives the whole minutes m = floor(s / 60), as "m min"
\* below an hour (125 seconds: "2 min") and otherwise as h hours and mm
\* minutes with h*60 + mm = m and 0 <= mm <= 59; an absent duration gives "?".
C25_DurationFormatting ==
    call.fn = "_format_duration" =>
        /\ call.seconds.kind = "none" => call.out = <<"?">>
        /\ call.seconds.kind = "int" =>
              LET m == WholeMinutes(call.seconds.value)
                  out == call.out
              IN /\ m < 60 => (Len(out) = 2 /\ out[1] = m /\ out[2] = "min")
                 /\ m >= 60 =>
                       /\ Len(out) = 4 /\ out[2] = "h" /\ out[4] = "min"
                       /\ out[1] * 60 + out[3] = m
                       /\ 0 <= out[3] /\ out[3] <= 59
                 /\ call.seconds.value = 125 => (Len(out) = 2 /\ out[1] = 2)

\* 3725 seconds were formatted as 1 h 02 min.
C25_Witness ==
    /\ call.fn = "_format_duration"
    /\ call.seconds = Seconds(3725)
    /\ Len(call.out) = 4 /\ call.out[1] = 1 /\ call.out[3] = 2

\* The journeys in use for the call: the eligible ones, or all of them when
\* none is eligible (line 455).
InUse == IF call.out.filtered # <<>> THEN call.out.filtered ELSE ItinJourneys

\* C26 -- render bound.  For every journeys response get_itinerary renders
\* at most 3 journeys; they are the first journeys in use, in the
\* upstream's order, numbered Option 1..k, each with its total duration and
\* its transfer count (0 when the journey has none).
C26_RenderBound ==
    call.fn = "get_itinerary" =>
        LET options == call.out.options
        IN /\ Len(options) <= 3
           /\ ItinPrinted =>
                 /\ Len(options) = (IF Len(InUse) < 3 THEN Len(InUse) ELSE 3)
                 /\ \A i \in 1..Len(options) :
                       /\ options[i].option = i
                       /\ options[i].source = InUse[i]
                       /\ options[i].total = format_duration(InUse[i].duration)
                       /\ InUse[i].nb_transfers.kind = "int" =>
                             options[i].transfers = InUse[i].nb_transfers.value

\* Four journeys were in use and three options were printed.
C26_Witness ==
    /\ ItinPrinted
    /\ Len(InUse) = 4
    /\ Len(call.out.options) = 3
    /\ call.out.options[3].option = 3

\* A call of get_station_id returned (it did not raise).
StationReturned == resolved.q # None /\ resolved.out.text # RAISED

\* C27 -- resolved-station shape.  Every successful result of
\* get_station_id, from the index path and from the places fallback, is a
\* JSON object with name, id, mode, coordinates and candidates; every
\* unsuccessful result is a plain text and no such object.
C27_ResolvedStationShape ==
    StationReturned =>
        /\ resolved.out.ok =>
              {"name", "id", "mode", "coordinates", "candidates"} \subseteq resolved.out.keys
        /\ ~resolved.out.ok => (resolved.out.text # "json" /\ resolved.out.keys = {})

\* What the second call recorded in `call` returns in a run without the
\* earlier call, the index store and the upstream answering the same.
AloneResult ==
    get_station_id(call.q, call.es, Candidates(call.hits), Best(Candidates(call.hits)),
                   call.upstream)

\* C28 -- stateless resolution.  The result of get_station_id(name) depends
\* only on the name and on what the index store and the upstream answer at
\* the time of the call: a call made after another call returns what it
\* returns in a run without the earlier call.
C28_StatelessResolution ==
    call.fn = "get_station_id" => call.out = AloneResult

\* The index search of the call answered with at least one hit.
IndexGaveHits == StationReturned /\ resolved.es = "hits" /\ resolved.hits # <<>>

\* seq2 lists, in order, the name and mode of some of the hits, in the
\* hits' order.
RECURSIVE InRankOrder(_, _)
InRankOrder(cands, hits) ==
    IF cands = <<>> THEN TRUE
    ELSE IF hits = <<>> THEN FALSE
    ELSE IF /\ Head(cands).name = pick_name(Head(hits))
            /\ Head(cands).mode = ModeOrUnknown(pick_mode(Head(hits)))
         THEN InRankOrder(Tail(cands), Tail(hits))
         ELSE InRankOrder(cands, Tail(hits))

\* C29 -- top hit and candidates.  When the index search returns at least
\* one hit, the station get_station_id returns is the highest-ranked hit
\* (its name, id and mode), and the candidates list has at most 5 entries,
\* in rank order, the first being the resolved station.
C29_TopHitAndCandidates ==
    IndexGaveHits =>
        LET top == resolved.hits[1]
            out == resolved.out
        IN /\ out.ok
           /\ out.name = top.name /\ out.id = top.id
           /\ out.mode = ModeOrUnknown(pick_mode(top))
           /\ Len(out.candidates) <= 5
           /\ Len(out.candidates) >= 1
           /\ InRankOrder(out.candidates, resolved.hits)
           /\ out.candidates[1] = [name |-> out.name, mode |-> out.mode]

\* The document id the deployment's sink gives a data record.
SinkDocId(data) ==
    IF cfg.sys = "disruptions" THEN DisruptionDocId(data)
    ELSE IF cfg.variant = "bulk" THEN StationBulkDocId(data)
    ELSE StationDirectDocId(data)

\* The data records the producer has produced, queued ones included.
ProducedRecords ==
    {LogMsg(ProducerTopic(cfg.sys), sl) : sl \in LogSlots(ProducerTopic(cfg.sys))}
    \cup {pbuf[k].msg : k \in QueuedSlots}

\* Two produced data records with the same message key have the same id
\* and the same mode.
C30_MessageKeyIsComposite ==
    cfg.feed = "producer" =>
        \A a \in ProducedRecords, b \in ProducedRecords :
            (~IsControl(a) /\ ~IsControl(b) /\ ProducerKey(a) = ProducerKey(b))
                => (a.id = b.id /\ a.mode = b.mode)

\* The id of a document in the index is the document id of no record with
\* another id or another mode.
C30_DocumentIdIsComposite ==
    \A d \in index[SinkIndex(cfg)] :
        \A sl \in LogSlots(SinkTopic(cfg)) :
            LET m == LogMsg(SinkTopic(cfg), sl)
            IN (~IsControl(m) /\ SinkDocId(m) = d._id)
                   => (m.id = d.id /\ Lower(m.mode) = Lower(d.mode))

\* C30 -- the uniqueness key is the identity everywhere.  The message key a
\* producer gives a data record and the document id a sink gives it are the
\* record's composite key (id with mode): two records with different
\* (id, mode) never get the same key or the same document id.
C30_UniquenessKey ==
    /\ C30_MessageKeyIsComposite
    /\ C30_DocumentIdIsComposite

C32_PlacesPreference ==
    call.fn = "_best_place_from_prim" =>
        LET places == call.places.list
            out == call.out
        IN /\ (places = <<>>) <=> ~out.found
           /\ out.found =>
                 /\ out.at \in 1..Len(places)
                 /\ (\E j \in 1..Len(places) : places[j].embedded_type = "stop_area")
                        => places[out.at].embedded_type = "stop_area"
                 /\ \A j \in 1..Len(places) :
                        places[j].embedded_type = places[out.at].embedded_type
                            => places[j].quality <= places[out.at].quality

\* With CONTINUOUS_RUN, after every cycle a further cycle starts.
C33_ContinuousRepeats ==
    \A c \in 1..(MaxCycles - 1) :
        (cfg.continuous /\ p_pc = "done" /\ p_cycle = c) ~> (p_cycle = c + 1)

\* Without CONTINUOUS_RUN the process runs one cycle and exits.
C33_SingleShot ==
    /\ [](~cfg.continuous => p_cycle <= 1)
    /\ (~cfg.continuous) ~> (p_pc = "exited" /\ p_cycle = 1)

\* C33 -- periodic producer.  With CONTINUOUS_RUN the disruption producer
\* runs poll cycles repeatedly: after every cycle it waits the interval and
\* a further cycle eventually starts; without it the producer runs exactly
\* one cycle and exits.
C33_PeriodicProducer ==
    /\ C33_ContinuousRepeats
    /\ C33_SingleShot

\* C34 -- sink recovery.  The disruption sink never leaves its consume
\* loop: whatever failed before (a Kafka error, a failed index write), a new
\* consumer resumes polling, so every message on the topic, those
\* published after a failure included, is eventually handled.
C34_SinkRecovery ==
    \A k \in 1..MaxLog :
        (Len(log[DSinkTopic][1]) >= k) ~> (pos[1] >= k)

\* An index write failed earlier, and the record published after it has
\* been handled and indexed.
C34_Witness ==
    /\ cfg.sys = "disruptions"
    /\ failed # {}
    /\ sunk.result = "indexed"
    /\ pos[1] = Len(log[DSinkTopic][1])
    /\ \A f \in failed : f[2] < pos[1]

\* The document d of the index was created by the sink from the data record
\* x of the producer.
CreatedFrom(d, x) ==
    /\ ~IsControl(x) /\ x.cyc >= 1
    /\ d._id = SinkDocId(x) /\ d.id = x.id /\ d.name = x.name /\ d.cyc = x.cyc

\* The messages of the station topic the sink has polled.
PolledMsgs ==
    {LogMsg(SProducerTopic, sl) :
        sl \in {x \in LogSlots(SProducerTopic) : x[2] <= pos[x[1]]}}

\* The mode stored on a document is the scope of its group's CLEAR, which
\* is the mode of the group's data records.
C35_StoredModeIsScope ==
    \A d \in index[SinkIndex(cfg)] :
        \A x \in PolledMsgs :
            CreatedFrom(d, x) => d.mode = ControlMsg(x.mode, x.cyc).mode

\* Once the sink has handled all it polled, no document created from a
\* record of a group in cycle c is left when the group's CLEAR of cycle
\* c+1 was polled.
C35_NextClearDeletes ==
    (cfg.nparts = 1 /\ actions = <<>> /\ failed = {} /\ ~redelivered) =>
        \A d \in index[SinkIndex(cfg)] :
            \A x \in PolledMsgs :
                CreatedFrom(d, x) => ControlMsg(x.mode, x.cyc + 1) \notin PolledMsgs

\* C35 -- CLEAR scope matches stored mode.  For every mode group the scope
\* carried by the producer's CLEAR equals the mode stored on the documents
\* the sink creates from the group's data records, so that the CLEAR of
\* cycle c+1 deletes every document indexed for the group in cycle c.
C35_ClearScopeMatchesStoredMode ==
    (cfg.sys = "stations" /\ cfg.feed = "producer") =>
        /\ C35_StoredModeIsScope
        /\ C35_NextClearDeletes

\* The messages of cycle c and mode m the producer has produced, the CLEAR
\* included, delivered (lg) or still queued (buf).
ProducedFor(lg, buf, c, m) ==
    LET topic == ProducerTopic(cfg.sys)
        all == UNION {{lg[topic][p][i] : i \in 1..Len(lg[topic][p])} : p \in Parts}
               \cup {buf[i].msg : i \in 1..Len(buf)}
    IN {x \in all : x.cyc = c /\ x.mode = m}

\* The step is the fetch of the current group, and it did not succeed.
FailedFetchStep ==
    /\ cfg.feed = "producer" /\ p_pc = "fetch"
    /\ p_mode \notin attempted /\ p_mode \in attempted'
    /\ p_pc' # "publishing"

\* In the current run the fetch of group k was attempted and failed.
FetchFailed(k) ==
    /\ cfg.feed = "producer" /\ k \in attempted
    /\ ProducedFor(log, pbuf, p_cycle, ModeList(cfg.sys)[k]) = {}

\* A failed fetch leaves no message of its group and cycle; a message of a
\* group and cycle is only ever produced by that group's successful fetch
\* or by the walk over its response; and the run never returns to a group.
C36_NothingPublished ==
    [][/\ FailedFetchStep =>
            /\ ProducedFor(log', pbuf', p_cycle, ModeList(cfg.sys)[p_mode]) = {}
            /\ p_cycle' = p_cycle
            /\ p_mode' > p_mode \/ p_pc' \in {"done", "aborted"}
       /\ \A c \in 1..MaxCycles, k \in 1..NumModes :
            ProducedFor(log', pbuf', c, ModeList(cfg.sys)[k])
              # ProducedFor(log, pbuf, c, ModeList(cfg.sys)[k])
            => /\ p_cycle = c /\ p_mode = k
               /\ p_pc = "publishing" \/ (p_pc = "fetch" /\ p_pc' = "publishing")
       /\ p_cycle' = p_cycle =>
            /\ p_mode' >= p_mode
            /\ p_pc \in {"done", "aborted"} => p_pc' = p_pc
      ]_vars

\* The messages the sink handles in a step that writes the index.
HandledInStep ==
    IF actions # <<>> /\ actions' = <<>>
    THEN {actions[i].msg : i \in 1..Len(actions)}
    ELSE {sunk'.msg}

\* While the sink handles messages of the cycle in which the fetch of a
\* group failed, the documents indexed for the group in earlier cycles stay.
C36_DocumentsUnchanged ==
    [][\A k \in 1..NumModes :
          (/\ FetchFailed(k)
           /\ index' # index
           /\ \A h \in HandledInStep : h.cyc = p_cycle)
          => \A d \in index[SinkIndex(cfg)] :
                (d.cyc < p_cycle
                 /\ Lower(d.mode) = Lower(ModeList(cfg.sys)[k]))
                => d \in index'[SinkIndex(cfg)]
      ]_vars

\* C36 -- no wipe on failed fetch.  If the upstream fetch for a mode fails
\* in a producer cycle, the producer publishes no CLEAR and no data record
\* for that mode in that cycle, so the documents previously indexed for that
\* mode are left unchanged by that cycle.
C36_NoWipeOnFailedFetch ==
    /\ C36_NothingPublished
    /\ C36_DocumentsUnchanged

\* A call of get_nvidia_embedding for a text whose earlier request failed
\* returns the vector of a new request that succeeds.
C37_FailureNotCached ==
    \A t \in Texts \ {None} :
        embCache[t] = "fail" => EmbedOutcome(embCache, t, "ok") = "ok"

\* When the next record of the sink's topic has a text whose embedding
\* failed before, the iteration that handles it can index it.
C37_RepublishedIsIndexed ==
    \A p \in Parts :
        (/\ cfg.sys = "disruptions" /\ HasNext(p)
         /\ ~IsControl(NextMsg(p))
         /\ embCache[NextMsg(p).name] = "fail")
        => ENABLED (DisturbanceSink_Poll /\ pos'[p] = pos[p] + 1
                                         /\ sunk'.result = "indexed")

\* C37 -- embedding failures are not remembered.  After
\* get_nvidia_embedding returned an empty vector for a text because the
\* upstream request failed, a later call with the same text issues a new
\* request and returns its vector when it succeeds; hence a disruption
\* skipped because of a transient embedding failure is indexed when it is
\* republished in a later cycle.
C37_EmbeddingFailuresNotRemembered ==
    /\ C37_FailureNotCached
    /\ C37_RepublishedIsIndexed

\* What _resolve_place_id does with a value r returned by get_station_id:
\* a failure text raises ValueError carrying it, a success payload gives
\* its id.
Recognised(r) ==
    /\ (~r.ok /\ r.text # RAISED) =>
          (resolve_place_id(r).kind = "ValueError" /\ resolve_place_id(r).arg = r.text)
    /\ r.ok => (resolve_place_id(r).kind = "id" /\ resolve_place_id(r).id = r.id)
    /\ resolve_place_id(r).kind = "ValueError" => ~r.ok
    /\ resolve_place_id(r).kind = "id" => r.ok

\* C38 -- failure recognition in _resolve_place_id.  For every value
\* get_station_id returns to a call of get_itinerary, _resolve_place_id
\* raises ValueError carrying that text when the value is a failure text and
\* returns the id field when it is a success payload: no failure text is
\* parsed as a success and no success payload is treated as a failure.
C38_FailureRecognition ==
    (call.fn = "get_itinerary") =>
        /\ call.r1 # NoOut => Recognised(call.r1)
        /\ call.r2 # NoOut => Recognised(call.r2)

\* The start was resolved and the resolution of the end gave the text of an
\* upstream HTTP error.
C38_Witness ==
    /\ call.fn = "get_itinerary"
    /\ call.r1.ok /\ resolve_place_id(call.r1).id = call.r1.id
    /\ call.r2.text = PrimErrorHttp
    /\ resolve_place_id(call.r2).arg = PrimErrorHttp

=============================================================================
